---- MODULE Spec2Model ----
(***************************************************************************)
(* Model of the credential store, password verification, token lifecycle   *)
(* and login/register flows of the Takeout MS back office                  *)
(* (src/modules/auth.py, src/modules/db.py, src/modules/ui_admin_users.py, *)
(* src/app.py).                                                            *)
(*                                                                         *)
(* Text is a sequence of one-character strings, bytes are sequences of     *)
(* naturals.  PBKDF2 is modelled as an injective function of (password,    *)
(* salt); random tokens are fresh.  A SELECT ... fetchone() without ORDER  *)
(* BY returns any of the matching rows.  All modules are taken to open the *)
(* same user database file.                                                *)
(*                                                                         *)
(* The second part models the order import of                              *)
(* src/modules/ui_settings_import.py: the normalizers, the grouping of the *)
(* uploaded rows, the document sequence, the upsert and the audit trail.   *)
(* Spreadsheet texts are sequences of one-character strings, an empty cell *)
(* (NaN) is the empty sequence, and amounts are whole numbers.             *)
(***************************************************************************)
EXTENDS Integers, Sequences, FiniteSets, TLC

VARIABLES
    schema,       \* which CREATE TABLE made the users table: "current"
                  \* (auth.py / db.py) or "legacy" (ui_admin_users.py, with
                  \* the missing columns added by the migrations)
    users,        \* rows of the users table
    nextUserId,   \* AUTOINCREMENT of users.id
    tokens,       \* rows of the password_tokens table
    nextTokenId,  \* AUTOINCREMENT of password_tokens.id
    now,          \* datetime.utcnow(), in ticks of 1/TicksPerSecond second
    advances,     \* number of clock steps taken (bounded by MaxAdvances)
    sess,         \* per browser session: st.session_state and the position
                  \* and locals of the handler it is running
    last,         \* the most recent operation and what it returned
    registered,   \* history: ids of accounts made by the register flow
    approved,     \* history: ids the administrator activated (and has not
                  \* deactivated since)
    redeemed,     \* history: successful redemptions per token id
    expiredSeen,  \* history: token ids once refused as expired
    issuedAt,     \* history: issue instant per token id
    verifying,    \* per session: position and locals of a running
                  \* verify_token_and_change_password
    sales,        \* rows of the sales table (invoice headers)
    nextSaleId,   \* AUTOINCREMENT of sales.id
    sales_items,  \* rows of the sales_items table
    sequences,    \* rows of the sequences table
    audit_log,    \* rows of the audit_log table, in insertion order
    month,        \* datetime.utcnow() as months since January 2025
    run,          \* the import run of render: position, the uploaded file,
                  \* the groups still to process and the counters
    numbering,    \* per session: position and locals of a running
                  \* _next_doc_no
    issued,       \* history: the document numbers _next_doc_no returned
    previous      \* history: the last completed import run and the store
                  \* it left

\* the state of the account and token part
authVars == <<schema, users, nextUserId, tokens, nextTokenId, now, advances,
              sess, last, registered, approved, redeemed, expiredSeen,
              issuedAt, verifying>>

\* the state of the import part
importVars == <<sales, nextSaleId, sales_items, sequences, audit_log, month,
                run, numbering, issued, previous>>

vars == <<schema, users, nextUserId, tokens, nextTokenId, now, advances,
          sess, last, registered, approved, redeemed, expiredSeen, issuedAt,
          verifying, sales, nextSaleId, sales_items, sequences, audit_log,
          month, run, numbering, issued, previous>>

(* ------------------------------ bounds --------------------------------- *)
MaxUsers == 2
MaxTokens == 2
MaxAdvances == 2
MaxRuns == 2
MaxMonths == 1
MaxIssued == 4

(* ------------------------- program constants --------------------------- *)
MinPasswordLen == 8
MinutesValid == 15
SecondsPerMinute == 60
TicksPerSecond == 3
SaltLen == 16

TTLTicks == MinutesValid * SecondsPerMinute * TicksPerSecond

(* ------------------------------ text/bytes ----------------------------- *)
Ord == ("1" :> 49) @@ ("2" :> 50) @@ ("3" :> 51) @@ ("4" :> 52) @@
       ("5" :> 53) @@ ("6" :> 54) @@ ("7" :> 55) @@ ("8" :> 56) @@
       ("a" :> 97) @@ ("b" :> 98) @@ ("c" :> 99) @@ ("p" :> 112) @@
       ("w" :> 119) @@ (" " :> 32)

HexVal == ("0" :> 0) @@ ("1" :> 1) @@ ("2" :> 2) @@ ("3" :> 3) @@ ("4" :> 4) @@
          ("5" :> 5) @@ ("6" :> 6) @@ ("7" :> 7) @@ ("8" :> 8) @@ ("9" :> 9) @@
          ("a" :> 10) @@ ("b" :> 11) @@ ("c" :> 12) @@ ("d" :> 13) @@
          ("e" :> 14) @@ ("f" :> 15) @@ ("A" :> 10) @@ ("B" :> 11) @@
          ("C" :> 12) @@ ("D" :> 13) @@ ("E" :> 14) @@ ("F" :> 15)

\* str.encode("utf-8") on the (ASCII) texts of the model
Encode(s) == [i \in 1..Len(s) |-> Ord[s[i]]]

RECURSIVE Strip(_)
\* str.strip(): drop leading and trailing blanks
Strip(s) ==
    IF s = <<>> THEN s
    ELSE IF Head(s) = " " THEN Strip(Tail(s))
    ELSE IF s[Len(s)] = " " THEN Strip(SubSeq(s, 1, Len(s) - 1))
    ELSE s

\* bytes.fromhex(s) for an even-length string of hex digits
FromHex(s) == [i \in 1..(Len(s) \div 2) |-> 16 * HexVal[s[2*i - 1]] + HexVal[s[2*i]]]

NullValue == [t |-> "null", v |-> <<>>]
Blob(b) == [t |-> "blob", v |-> b]
TextValue(s) == [t |-> "text", v |-> s]

\* auth._to_bytes: NULL -> b"", bytes -> bytes, str -> hex-decoded when it
\* is an even-length string of hex digits, else its UTF-8 encoding
ToBytes(x) ==
    IF x.t = "null" THEN <<>>
    ELSE IF x.t = "blob" THEN x.v
    ELSE LET s == Strip(x.v) IN
         IF Len(s) % 2 = 0 /\ \A i \in 1..Len(s) : s[i] \in DOMAIN HexVal
         THEN FromHex(s)
         ELSE Encode(s)

\* hashlib.pbkdf2_hmac("sha256", password, salt, 200000), taken injective:
\* the digest determines the password bytes and the salt and is no UTF-8 text
HashPassword(password, salt) == <<256>> \o Encode(password) \o <<257>> \o ToBytes(salt)

ZeroSalt == [i \in 1..SaltLen |-> 0]

(* ------------------------------ input sets ----------------------------- *)
PwGood == <<"p", "w", "1", "2", "3", "4", "5", "6">>
PwDigits == <<"1", "2", "3", "4", "5", "6", "7", "8">>
PwShort == <<"a", "b", "c">>
PwEmpty == <<>>
Passwords == {PwGood, PwDigits, PwShort, PwEmpty}
NewPasswords == {PwGood, PwShort, PwEmpty}

Names == {"a", "b"}
None == "None"
\* secrets.token_bytes(16): the values the model draws
Salts == {Blob(<<7>>)}
Sessions == {1, 2}
Schemas == {"current", "legacy"}

(* ------------------------------ messages ------------------------------- *)
MsgLoginRequired == "Enter your email/username and password."
MsgInvalidOrInactive == "Invalid credentials or inactive account."
MsgPending == "Account pending approval. Please wait for an admin to activate your access."
MsgRegRequired == "Username, email, and password are required."
MsgMismatch == "Passwords do not match."
MsgTooShort == "Password must be at least 8 characters."
MsgRegistered == "Registration received. Awaiting admin approval before you can sign in."
MsgConflict == "Email or username already registered. If you forgot your password, use 'Forgot password?'"
MsgGeneric == "If the account is registered and active, a confirmation token has been sent."
MsgSendFailed == "Failed to send token email"
MsgTokenRequired == "Token and new password are required."
MsgNotFound == "Invalid or expired token."
MsgWrongPurpose == "Invalid token purpose."
MsgAlreadyUsed == "This token has already been used."
MsgExpired == "This token has expired."
MsgChanged == "Password changed successfully."
MsgModuleFailed == "Module call failed"

(* ------------------------------ the store ------------------------------ *)
NoRow == [id |-> 0]

\* rows of SELECT ... FROM users WHERE email=? OR username=?
RowsByLogin(login) == {u \in users : u.email = login \/ u.username = login}

\* fetchone() of that query: some matching row, or no row
Fetch(login) == IF RowsByLogin(login) = {} THEN {NoRow} ELSE RowsByLogin(login)

UserById(id) == CHOOSE u \in users : u.id = id

IdleSession == [pc |-> "idle", email |-> "", password |-> <<>>, username |-> "",
                role |-> "", is_active |-> FALSE, flow |-> "", login |-> "",
                login_error |-> "", user |-> NoRow]

NoOp == [op |-> "none", s |-> 0, ok |-> FALSE, msg |-> "", login |-> "",
         password |-> <<>>, uid |-> 0, aux |-> "", tok |-> 0]

Outcome(op, s, ok, msg, login, password, uid, aux) ==
    [op |-> op, s |-> s, ok |-> ok, msg |-> msg, login |-> login,
     password |-> password, uid |-> uid, aux |-> aux, tok |-> 0]

\* the outcome of a token operation: the token it concerns and the instant
TokenOutcome(op, ok, msg, login, password, uid, aux, tok) ==
    [op |-> op, s |-> 0, ok |-> ok, msg |-> msg, login |-> login,
     password |-> password, uid |-> uid, aux |-> aux, tok |-> tok]

\* a row written before credentials were hashed: plaintext TEXT credential,
\* empty salt (the DEFAULT X'' of the salt migration), active by the
\* is_active migration default
LegacyRow(id, email, username, pw) ==
    [id |-> id, email |-> email, username |-> username,
     password_hash |-> TextValue(pw), salt |-> Blob(<<>>),
     role |-> "Admin", is_active |-> TRUE, status |-> "active"]

InitialStores == {{}, {LegacyRow(1, "a", "a", PwGood)}, {LegacyRow(1, "a", "a", PwDigits)}}

(* ------------------ initial values of the import part ------------------ *)
\* no file uploaded
NoSheet == [rows |-> <<>>, lineitem_name_twice |-> FALSE]

\* render before the Import button is pressed
IdleRun == [pc |-> "idle", n |-> 0, file |-> NoSheet, combine_items |-> TRUE,
            groups |-> <<>>, imported |-> 0, updated |-> 0, skipped |-> 0,
            issues |-> <<>>]

\* a session that is not inside _next_doc_no
IdleNumbering == [pc |-> "idle", seq_name |-> <<>>, value |-> 0]

\* a session that is not inside verify_token_and_change_password
IdleVerify == [pc |-> "idle", token |-> 0, new_password |-> <<>>, row |-> [id |-> 0],
               ok |-> FALSE, salt |-> NullValue]

\* the tables _ensure_schema and _ensure_audit_schema create, empty
ImportInit ==
    /\ sales = {}
    /\ nextSaleId = 1
    /\ sales_items = {}
    /\ sequences = {}
    /\ audit_log = <<>>
    /\ month = 0
    /\ run = IdleRun
    /\ numbering = [s \in Sessions |-> IdleNumbering]
    /\ issued = <<>>
    /\ previous = [run |-> IdleRun, sales |-> {}, sales_items |-> {}]

Init ==
    /\ schema \in Schemas
    /\ users \in InitialStores
    /\ (schema = "current" => users = {})
    /\ nextUserId = Cardinality(users) + 1
    /\ tokens = {}
    /\ nextTokenId = 1
    /\ now = 0
    /\ advances = 0
    /\ sess = [s \in Sessions |-> IdleSession]
    /\ last = NoOp
    /\ registered = {}
    /\ approved = {}
    /\ redeemed = <<>>
    /\ expiredSeen = {}
    /\ issuedAt = <<>>
    /\ verifying = [s \in Sessions |-> IdleVerify]
    /\ ImportInit

(* ------------------------------ ensure_user ---------------------------- *)
\* the SELECT of ensure_user looking at the email alone
EnsureUserRows_EmailOnly(email, username) == {u \in users : u.email = email}

\* the SELECT of ensure_user: by email or username when a username is given,
\* by email alone otherwise
EnsureUserRows(email, username) ==
    IF username # None
    THEN {u \in users : u.email = email \/ u.username = username}
    ELSE {u \in users : u.email = email}

\* the users table without its UNIQUE constraints
InsertViolatesConstraint_NoUnique(email, username) ==
    schema = "legacy" /\ username = None

\* the UNIQUE / NOT NULL constraints of the users table
\* (email UNIQUE, username UNIQUE; the legacy table has username NOT NULL)
InsertViolatesConstraint(email, username) ==
    \/ \E u \in users : u.email = email
    \/ username # None /\ \E u \in users : u.username = username
    \/ schema = "legacy" /\ username = None

NewUserRow(id, email, password, username, role, is_active, salt) ==
    [id |-> id, email |-> email, username |-> username,
     password_hash |-> Blob(HashPassword(password, salt)), salt |-> salt,
     role |-> role, is_active |-> is_active,
     status |-> IF schema = "legacy" THEN "active" ELSE None]

\* ensure_user up to and including its SELECT; an existing row ends the call
EnsureUserSelect(s, flow, email, password, username, role, is_active) ==
    IF EnsureUserRows(email, username) # {}
    THEN \E row \in EnsureUserRows(email, username) :
           /\ sess' = [sess EXCEPT ![s].pc = "idle"]
           /\ last' = Outcome(IF flow = "register" THEN "register" ELSE "ensure_user", s, TRUE,
                              IF flow = "register" THEN MsgRegistered ELSE "",
                              email, password, row.id, "existing")
    ELSE /\ sess' = [sess EXCEPT ![s] = [@ EXCEPT !.pc = "ensure_insert",
                        !.flow = flow, !.email = email, !.password = password,
                        !.username = username, !.role = role,
                        !.is_active = is_active]]
         /\ last' = Outcome("ensure_user_select", s, TRUE, "", email, password, 0, "none")

\* the Register button of _login_register_panel: local validation, then
\* ensure_user(email, pwd1, username=..., role="User", is_active=False)
RegisterSubmit(s, r_username, r_email, r_pwd1, r_pwd2) ==
    /\ sess[s].pc = "idle"
    /\ sess[s].user = NoRow
    /\ IF r_email = "" \/ r_pwd1 = <<>> \/ r_username = ""
       THEN /\ last' = Outcome("register", s, FALSE, MsgRegRequired, r_email, r_pwd1, 0, "")
            /\ UNCHANGED sess
       ELSE IF r_pwd1 # r_pwd2
       THEN /\ last' = Outcome("register", s, FALSE, MsgMismatch, r_email, r_pwd1, 0, "")
            /\ UNCHANGED sess
       ELSE IF Len(r_pwd1) < MinPasswordLen
       THEN /\ last' = Outcome("register", s, FALSE, MsgTooShort, r_email, r_pwd1, 0, "")
            /\ UNCHANGED sess
       ELSE EnsureUserSelect(s, "register", r_email, r_pwd1, r_username, "User", FALSE)
    /\ UNCHANGED <<importVars, verifying, schema, users, nextUserId, tokens, nextTokenId, now, advances,
                   registered, approved, redeemed, expiredSeen, issuedAt>>

\* a direct call ensure_user(email, password, username=..., role=..., is_active=...)
EnsureUserCall(s, email, password, username, role, is_active) ==
    /\ sess[s].pc = "idle"
    /\ sess[s].user = NoRow
    /\ EnsureUserSelect(s, "call", email, password, username, role, is_active)
    /\ UNCHANGED <<importVars, verifying, schema, users, nextUserId, tokens, nextTokenId, now, advances,
                   registered, approved, redeemed, expiredSeen, issuedAt>>

\* the INSERT of ensure_user and its commit; sqlite3.IntegrityError on a
\* constraint violation, which the register flow reports as a conflict
EnsureUserInsert(s, salt) ==
    /\ sess[s].pc = "ensure_insert"
    /\ LET c == sess[s] IN
       IF InsertViolatesConstraint(c.email, c.username)
       THEN /\ last' = Outcome(IF c.flow = "register" THEN "register" ELSE "ensure_user", s, FALSE,
                               IF c.flow = "register" THEN MsgConflict ELSE "IntegrityError",
                               c.email, c.password, 0, "IntegrityError")
            /\ UNCHANGED <<users, nextUserId, registered>>
       ELSE /\ nextUserId <= MaxUsers
            /\ users' = users \cup {NewUserRow(nextUserId, c.email, c.password,
                                               c.username, c.role, c.is_active, salt)}
            /\ nextUserId' = nextUserId + 1
            /\ registered' = IF c.flow = "register" THEN registered \cup {nextUserId}
                             ELSE registered
            /\ last' = Outcome(IF c.flow = "register" THEN "register" ELSE "ensure_user", s, TRUE,
                               IF c.flow = "register" THEN MsgRegistered ELSE "",
                               c.email, c.password, nextUserId, "inserted")
    /\ sess' = [sess EXCEPT ![s] = [IdleSession EXCEPT !.login_error = sess[s].login_error]]
    /\ UNCHANGED <<importVars, verifying, schema, tokens, nextTokenId, now, advances, approved,
                   redeemed, expiredSeen, issuedAt>>

(* ------------------------------ check_password ------------------------- *)
\* the legacy-plaintext test of check_password: empty (or all-zero) salt and
\* a non-empty stored credential that equals the UTF-8 bytes of the password
IsLegacyMatch(row, password) ==
    /\ ToBytes(row.salt) \in {<<>>, ZeroSalt}
    /\ ToBytes(row.password_hash) # <<>>
    /\ ToBytes(row.password_hash) = Encode(password)

\* the final comparison of check_password for a row that is not upgraded
DigestMatches(row, password) ==
    /\ ToBytes(row.salt) # <<>>
    /\ ToBytes(row.password_hash) # <<>>
    /\ ToBytes(row.password_hash) = HashPassword(password, row.salt)

\* the value check_password returns for the fetched row
CheckPasswordResult(row, password) ==
    IF row = NoRow THEN FALSE
    ELSE IF ~row.is_active THEN FALSE
    ELSE IF IsLegacyMatch(row, password) THEN TRUE
    ELSE DigestMatches(row, password)

\* the store after check_password: a legacy match rewrites the credential
\* as a salted hash under a fresh salt
CheckPasswordStore(row, password, new_salt) ==
    IF row # NoRow /\ row.is_active /\ IsLegacyMatch(row, password)
    THEN (users \ {row}) \cup
         {[row EXCEPT !.password_hash = Blob(HashPassword(password, new_salt)),
                      !.salt = new_salt]}
    ELSE users

(* ------------------------------ _do_login ------------------------------ *)
\* _do_login up to and including auth.check_password
DoLoginCheck(s, login_id, password) ==
    /\ sess[s].pc = "idle"
    /\ sess[s].user = NoRow
    /\ IF login_id = "" \/ password = <<>>
       THEN /\ sess' = [sess EXCEPT ![s].login_error = MsgLoginRequired]
            /\ last' = Outcome("login", s, FALSE, MsgLoginRequired, login_id, password, 0, "")
            /\ UNCHANGED users
       ELSE \E row \in Fetch(login_id), new_salt \in Salts :
            LET ok == CheckPasswordResult(row, password)
                legacy == row # NoRow /\ row.is_active /\ IsLegacyMatch(row, password)
            IN /\ users' = CheckPasswordStore(row, password, new_salt)
               /\ last' = Outcome("check_password", s, ok,
                                  IF ok THEN "" ELSE MsgInvalidOrInactive,
                                  login_id, password, row.id,
                                  IF legacy THEN "legacy" ELSE "hashed")
               /\ sess' = [sess EXCEPT ![s] =
                              IF ok THEN [@ EXCEPT !.pc = "login_lookup", !.login = login_id,
                                                    !.password = password]
                              ELSE [@ EXCEPT !.login_error = MsgInvalidOrInactive]]
    /\ UNCHANGED <<importVars, verifying, schema, nextUserId, tokens, nextTokenId, now, advances,
                   registered, approved, redeemed, expiredSeen, issuedAt>>

\* the rest of _do_login: db.get_user_min_by_login and the session update
DoLoginLookup(s) ==
    /\ sess[s].pc = "login_lookup"
    /\ \E row \in Fetch(sess[s].login) :
         IF row = NoRow \/ ~row.is_active
         THEN /\ sess' = [sess EXCEPT ![s] = [@ EXCEPT !.pc = "idle", !.login = "",
                                                 !.password = <<>>,
                                                 !.login_error = MsgPending]]
              /\ last' = Outcome("login", s, FALSE, MsgPending, sess[s].login,
                                 sess[s].password, row.id, "")
         ELSE /\ sess' = [sess EXCEPT ![s] = [@ EXCEPT !.pc = "idle", !.login = "",
                              !.password = <<>>, !.login_error = "",
                              !.user = [id |-> row.id, email |-> row.email,
                                        username |-> row.username, role |-> row.role]]]
              /\ last' = Outcome("login", s, TRUE, "", sess[s].login,
                                 sess[s].password, row.id, row.role)
    /\ UNCHANGED <<importVars, verifying, schema, users, nextUserId, tokens, nextTokenId, now, advances,
                   registered, approved, redeemed, expiredSeen, issuedAt>>

\* _logout
Logout(s) ==
    /\ sess[s].pc = "idle"
    /\ sess[s].user # NoRow
    /\ sess' = [sess EXCEPT ![s].user = NoRow]
    /\ last' = Outcome("logout", s, TRUE, "", "", <<>>, 0, "")
    /\ UNCHANGED <<importVars, verifying, schema, users, nextUserId, tokens, nextTokenId, now, advances,
                   registered, approved, redeemed, expiredSeen, issuedAt>>

(* ------------------------------ Admin / Users -------------------------- *)
\* ui_admin_users.render lists the users by their status column, which only
\* the legacy table has: on the current table the SELECT raises and _route
\* reports the failure
AdminPageFails ==
    /\ schema = "current"
    /\ last' = Outcome("admin", 0, FALSE, MsgModuleFailed, "", <<>>, 0, "no such column: status")
    /\ UNCHANGED <<importVars, verifying, schema, users, nextUserId, tokens, nextTokenId, now, advances,
                   sess, registered, approved, redeemed, expiredSeen, issuedAt>>

\* the Activate button: UPDATE users SET status='active'
AdminActivate(uid) ==
    /\ schema = "legacy"
    /\ \E u \in users : u.id = uid
    /\ users' = {IF u.id = uid THEN [u EXCEPT !.status = "active"] ELSE u : u \in users}
    /\ approved' = approved \cup {uid}
    /\ last' = Outcome("admin", 0, TRUE, "Activated.", "", <<>>, uid, "")
    /\ UNCHANGED <<importVars, verifying, schema, nextUserId, tokens, nextTokenId, now, advances,
                   sess, registered, redeemed, expiredSeen, issuedAt>>

\* the Deactivate button: UPDATE users SET status='disabled'
AdminDeactivate(uid) ==
    /\ schema = "legacy"
    /\ \E u \in users : u.id = uid
    /\ users' = {IF u.id = uid THEN [u EXCEPT !.status = "disabled"] ELSE u : u \in users}
    /\ approved' = approved \ {uid}
    /\ last' = Outcome("admin", 0, TRUE, "Deactivated.", "", <<>>, uid, "")
    /\ UNCHANGED <<importVars, verifying, schema, nextUserId, tokens, nextTokenId, now, advances,
                   sess, registered, redeemed, expiredSeen, issuedAt>>

\* the Delete User button; password_tokens rows go with the user
\* (FOREIGN KEY ... ON DELETE CASCADE, foreign_keys=ON)
AdminDelete(uid) ==
    /\ schema = "legacy"
    /\ \E u \in users : u.id = uid
    /\ users' = {u \in users : u.id # uid}
    /\ tokens' = {t \in tokens : t.user_id # uid}
    /\ approved' = approved \ {uid}
    /\ registered' = registered \ {uid}
    /\ last' = Outcome("admin", 0, TRUE, "User deleted.", "", <<>>, uid, "")
    /\ UNCHANGED <<importVars, verifying, schema, nextUserId, nextTokenId, now, advances,
                   sess, redeemed, expiredSeen, issuedAt>>

(* ------------------------------ tokens --------------------------------- *)
NoToken == [id |-> 0]
Null == -1
\* the empty token string; the token string of a row is its positive number
EmptyToken == 0
TokenInputs == 0..MaxTokens

\* strftime("%Y-%m-%d %H:%M:%S") of an instant: whole seconds
FormatSeconds(t) == (t \div TicksPerSecond) * TicksPerSecond

\* _create_token: the row inserted for a fresh random token
CreateToken(user_id, purpose, minutes_valid) ==
    [id |-> nextTokenId, user_id |-> user_id, token |-> nextTokenId,
     purpose |-> purpose,
     expires_at |-> FormatSeconds(now + minutes_valid * SecondsPerMinute * TicksPerSecond),
     used_at |-> Null]

\* the password_tokens table after an issue that spends the account's
\* earlier tokens
TokensAfterIssue_InvalidatesPrior(user_id) ==
    {IF t.user_id = user_id /\ t.used_at = Null
     THEN [t EXCEPT !.used_at = FormatSeconds(now)] ELSE t : t \in tokens}
      \cup {CreateToken(user_id, "password_change", MinutesValid)}

\* the password_tokens table after _create_token's INSERT and commit
TokensAfterIssue(user_id) ==
    tokens \cup {CreateToken(user_id, "password_change", MinutesValid)}

\* request_password_change telling an inactive account from an unknown one
RequestResult_RevealsInactive(user, delivered) ==
    IF user = NoRow THEN [ok |-> TRUE, msg |-> MsgGeneric]
    ELSE IF ~user.is_active THEN [ok |-> FALSE, msg |-> MsgInvalidOrInactive]
    ELSE IF ~delivered THEN [ok |-> FALSE, msg |-> MsgSendFailed]
    ELSE [ok |-> TRUE, msg |-> MsgGeneric]

\* the (ok, message) pair request_password_change returns for the row
\* _get_user_by_login fetched; delivered tells whether _send_email succeeds
RequestResult(user, delivered) ==
    IF user = NoRow \/ ~user.is_active THEN [ok |-> TRUE, msg |-> MsgGeneric]
    ELSE IF ~delivered THEN [ok |-> FALSE, msg |-> MsgSendFailed]
    ELSE [ok |-> TRUE, msg |-> MsgGeneric]

\* request_password_change
RequestPasswordChange(login, delivered) ==
    /\ \E user \in Fetch(login) :
         IF user = NoRow \/ ~user.is_active
         THEN /\ last' = TokenOutcome("request", RequestResult(user, delivered).ok,
                                      RequestResult(user, delivered).msg, login, <<>>, user.id,
                                      IF delivered THEN "delivered" ELSE "undelivered", 0)
              /\ UNCHANGED <<tokens, nextTokenId, redeemed, issuedAt>>
         ELSE /\ nextTokenId <= MaxTokens
              /\ tokens' = TokensAfterIssue(user.id)
              /\ nextTokenId' = nextTokenId + 1
              /\ redeemed' = Append(redeemed, 0)
              /\ issuedAt' = Append(issuedAt, now)
              /\ last' = TokenOutcome("request", RequestResult(user, delivered).ok,
                                      RequestResult(user, delivered).msg, login, <<>>, user.id,
                                      IF delivered THEN "delivered" ELSE "undelivered",
                                      nextTokenId)
    /\ UNCHANGED <<importVars, verifying, schema, users, nextUserId, now, advances, sess, registered,
                   approved, expiredSeen>>

TokenRows(token) == {t \in tokens : t.token = token}

\* verify_token_and_change_password without its used_at check
VerifyFailure_IgnoresUsedAt(token, new_password, row) ==
    IF token = EmptyToken \/ new_password = <<>> THEN MsgTokenRequired
    ELSE IF row = NoToken THEN MsgNotFound
    ELSE IF row.purpose # "password_change" THEN MsgWrongPurpose
    ELSE IF now > row.expires_at THEN MsgExpired
    ELSE IF Len(new_password) < MinPasswordLen THEN MsgTooShort
    ELSE ""

\* verify_token_and_change_password without its password-length check
VerifyFailure_NoLengthCheck(token, new_password, row) ==
    IF token = EmptyToken \/ new_password = <<>> THEN MsgTokenRequired
    ELSE IF row = NoToken THEN MsgNotFound
    ELSE IF row.purpose # "password_change" THEN MsgWrongPurpose
    ELSE IF row.used_at # Null THEN MsgAlreadyUsed
    ELSE IF now > row.expires_at THEN MsgExpired
    ELSE ""

\* verify_token_and_change_password testing the expiry before the consumed mark
VerifyFailure_ExpiryFirst(token, new_password, row) ==
    IF token = EmptyToken \/ new_password = <<>> THEN MsgTokenRequired
    ELSE IF row = NoToken THEN MsgNotFound
    ELSE IF row.purpose # "password_change" THEN MsgWrongPurpose
    ELSE IF now > row.expires_at THEN MsgExpired
    ELSE IF row.used_at # Null THEN MsgAlreadyUsed
    ELSE IF Len(new_password) < MinPasswordLen THEN MsgTooShort
    ELSE ""

\* the checks of verify_token_and_change_password in their order; "" when
\* all of them pass
VerifyFailure(token, new_password, row) ==
    IF token = EmptyToken \/ new_password = <<>> THEN MsgTokenRequired
    ELSE IF row = NoToken THEN MsgNotFound
    ELSE IF row.purpose # "password_change" THEN MsgWrongPurpose
    ELSE IF row.used_at # Null THEN MsgAlreadyUsed
    ELSE IF now > row.expires_at THEN MsgExpired
    ELSE IF Len(new_password) < MinPasswordLen THEN MsgTooShort
    ELSE ""

\* verify_token_and_change_password
VerifyTokenAndChangePassword(token, new_password, salt) ==
    /\ \E row \in (IF TokenRows(token) = {} THEN {NoToken} ELSE TokenRows(token)) :
         LET failure == VerifyFailure(token, new_password, row) IN
         IF failure # ""
         THEN /\ last' = TokenOutcome("verify", FALSE, failure, "", new_password, 0, "", token)
              /\ expiredSeen' = IF failure = MsgExpired THEN expiredSeen \cup {row.id}
                                ELSE expiredSeen
              /\ UNCHANGED <<users, tokens, redeemed>>
         ELSE /\ users' = {IF u.id = row.user_id
                           THEN [u EXCEPT !.password_hash = Blob(HashPassword(new_password, salt)),
                                          !.salt = salt]
                           ELSE u : u \in users}
              /\ tokens' = (tokens \ {row}) \cup {[row EXCEPT !.used_at = FormatSeconds(now)]}
              /\ redeemed' = [redeemed EXCEPT ![row.id] = @ + 1]
              /\ last' = TokenOutcome("verify", TRUE, MsgChanged, "", new_password,
                                      row.user_id, "", token)
              /\ UNCHANGED expiredSeen
    /\ UNCHANGED <<importVars, verifying, schema, nextUserId, nextTokenId, now, advances, sess,
                   registered, approved, issuedAt>>

\* the clock (datetime.utcnow) advances
ClockSteps == {2, TTLTicks - 1}

Tick(d) ==
    /\ advances < MaxAdvances
    /\ now' = now + d
    /\ advances' = advances + 1
    /\ last' = Outcome("tick", 0, TRUE, "", "", <<>>, 0, "")
    /\ UNCHANGED <<importVars, verifying, schema, users, nextUserId, tokens, nextTokenId, sess,
                   registered, approved, redeemed, expiredSeen, issuedAt>>

\* verify_token_and_change_password in session s up to the row its SELECT
\* fetches; the connection is in autocommit mode and holds no lock once
\* the row is fetched
VerifyRead(s, token, new_password) ==
    /\ verifying[s].pc \in {"idle", "returned", "crashed", "crashed_in_transaction"}
    /\ \E row \in (IF TokenRows(token) = {} THEN {NoToken} ELSE TokenRows(token)) :
          verifying' = [verifying EXCEPT ![s] =
                           [pc |-> "read", token |-> token, new_password |-> new_password,
                            row |-> row, ok |-> FALSE, salt |-> NullValue]]
    /\ UNCHANGED <<importVars, schema, users, nextUserId, tokens, nextTokenId, now, advances,
                   sess, last, registered, approved, redeemed, expiredSeen, issuedAt>>

\* the UPDATE of password_tokens: the row with this id is marked, whatever
\* its used_at is by now
MarkUsed(token_id) ==
    {IF t.id = token_id THEN [t EXCEPT !.used_at = FormatSeconds(now)] ELSE t : t \in tokens}

\* the rest of verify_token_and_change_password in session s: the checks
\* on the fetched row, the two UPDATEs and the commit
VerifyWrite(s, salt) ==
    /\ verifying[s].pc = "read"
    /\ IF VerifyFailure(verifying[s].token, verifying[s].new_password, verifying[s].row) # ""
       THEN /\ last' = TokenOutcome("verify", FALSE,
                                    VerifyFailure(verifying[s].token, verifying[s].new_password,
                                                  verifying[s].row),
                                    "", verifying[s].new_password, 0, "", verifying[s].token)
            /\ expiredSeen' = IF VerifyFailure(verifying[s].token, verifying[s].new_password,
                                               verifying[s].row) = MsgExpired
                              THEN expiredSeen \cup {verifying[s].row.id}
                              ELSE expiredSeen
            /\ verifying' = [verifying EXCEPT ![s].pc = "returned", ![s].ok = FALSE]
            /\ UNCHANGED <<users, tokens, redeemed>>
       ELSE /\ users' = {IF u.id = verifying[s].row.user_id
                         THEN [u EXCEPT !.password_hash =
                                           Blob(HashPassword(verifying[s].new_password, salt)),
                                        !.salt = salt]
                         ELSE u : u \in users}
            /\ tokens' = MarkUsed(verifying[s].row.id)
            /\ redeemed' = [redeemed EXCEPT ![verifying[s].row.id] = @ + 1]
            /\ last' = TokenOutcome("verify", TRUE, MsgChanged, "", verifying[s].new_password,
                                    verifying[s].row.user_id, "", verifying[s].token)
            /\ verifying' = [verifying EXCEPT ![s].pc = "returned", ![s].ok = TRUE]
            /\ UNCHANGED expiredSeen
    /\ UNCHANGED <<importVars, schema, nextUserId, nextTokenId, now, advances, sess,
                   registered, approved, issuedAt>>

\* the same function statement by statement, for a process that may die
\* inside it.  sqlite3 opens a transaction at the first UPDATE and keeps
\* both UPDATEs in it until conn.commit(); the database file, which is
\* what other connections read and what is left after a crash, holds
\* nothing of an open transaction
Durable_Autocommit(before, after) == after

Durable(before, after) == before

\* the UPDATE of users
UsersAfterChange(user_id, new_password, salt) ==
    {IF u.id = user_id
     THEN [u EXCEPT !.password_hash = Blob(HashPassword(new_password, salt)), !.salt = salt]
     ELSE u : u \in users}

\* another connection holds the write lock
WriteLocked(s) ==
    \E o \in Sessions \ {s} : verifying[o].pc \in {"updated_users", "updated_token"}

\* the checks have passed and UPDATE users has run
VerifyUpdateUsers(s, salt) ==
    /\ verifying[s].pc = "read"
    /\ VerifyFailure(verifying[s].token, verifying[s].new_password, verifying[s].row) = ""
    /\ ~WriteLocked(s)
    /\ users' = Durable(users, UsersAfterChange(verifying[s].row.user_id,
                                                verifying[s].new_password, salt))
    /\ verifying' = [verifying EXCEPT ![s].pc = "updated_users", ![s].salt = salt]
    /\ UNCHANGED <<importVars, schema, nextUserId, tokens, nextTokenId, now, advances, sess,
                   last, registered, approved, redeemed, expiredSeen, issuedAt>>

\* UPDATE password_tokens has run
VerifyUpdateToken(s) ==
    /\ verifying[s].pc = "updated_users"
    /\ tokens' = Durable(tokens, MarkUsed(verifying[s].row.id))
    /\ verifying' = [verifying EXCEPT ![s].pc = "updated_token"]
    /\ UNCHANGED <<importVars, schema, users, nextUserId, nextTokenId, now, advances, sess,
                   last, registered, approved, redeemed, expiredSeen, issuedAt>>

\* conn.commit() and the return of success
VerifyCommit(s) ==
    /\ verifying[s].pc = "updated_token"
    /\ users' = UsersAfterChange(verifying[s].row.user_id, verifying[s].new_password,
                                 verifying[s].salt)
    /\ tokens' = MarkUsed(verifying[s].row.id)
    /\ redeemed' = [redeemed EXCEPT ![verifying[s].row.id] = @ + 1]
    /\ last' = TokenOutcome("verify", TRUE, MsgChanged, "", verifying[s].new_password,
                            verifying[s].row.user_id, "", verifying[s].token)
    /\ verifying' = [verifying EXCEPT ![s].pc = "returned", ![s].ok = TRUE]
    /\ UNCHANGED <<importVars, schema, nextUserId, nextTokenId, now, advances, sess,
                   registered, approved, expiredSeen, issuedAt>>

\* the process of session s dies inside the function; the open transaction,
\* if any, is rolled back when the database is next opened
Crash(s) ==
    /\ verifying[s].pc \in {"read", "updated_users", "updated_token"}
    /\ verifying' = [verifying EXCEPT ![s].pc =
                        IF verifying[s].pc = "read" THEN "crashed"
                        ELSE "crashed_in_transaction"]
    /\ UNCHANGED <<importVars, schema, users, nextUserId, tokens, nextTokenId, now, advances,
                   sess, last, registered, approved, redeemed, expiredSeen, issuedAt>>

(* ------------------------------ specifications ------------------------- *)
\* the Register button pressed in session s
Register(s) ==
    \E u \in Names, e \in Names, p1 \in {PwGood, PwShort, PwEmpty} :
       \E p2 \in {p1, PwGood} : RegisterSubmit(s, u, e, p1, p2)

\* an account provisioned through ensure_user in session s
Provision(s) ==
    \E e \in Names, u \in Names \cup {None}, a \in BOOLEAN :
       EnsureUserCall(s, e, PwDigits, u, "Admin", a)

Insert(s) == \E salt \in Salts : EnsureUserInsert(s, salt)

\* the Login button pressed in session s
Login(s) == \E l \in Names \cup {""}, p \in Passwords : DoLoginCheck(s, l, p)

\* one interactive session and the administrator
Next ==
    \/ Register(1)
    \/ Provision(1)
    \/ Insert(1)
    \/ Login(1)
    \/ DoLoginLookup(1)
    \/ Logout(1)
    \/ AdminPageFails
    \/ \E uid \in 1..MaxUsers : AdminActivate(uid)
    \/ \E uid \in 1..MaxUsers : AdminDeactivate(uid)
    \/ \E uid \in 1..MaxUsers : AdminDelete(uid)

Spec == Init /\ [][Next]_vars

\* concurrent sessions registering and provisioning accounts
ConcurrentNext ==
    \/ \E s \in Sessions : Register(s)
    \/ \E s \in Sessions : Provision(s)
    \/ \E s \in Sessions : Insert(s)

ConcurrentSpec == Init /\ [][ConcurrentNext]_vars

\* stores the account flows above leave behind: an active provisioned
\* account alone, with an inactive registered account, and with an inactive
\* account whose email is the first account's username
ProvisionedRow(id, email, username, is_active) ==
    [id |-> id, email |-> email, username |-> username,
     password_hash |-> Blob(HashPassword(PwDigits, Blob(<<7>>))), salt |-> Blob(<<7>>),
     role |-> "Admin", is_active |-> is_active, status |-> None]

RegisteredRow(id, email, username) ==
    [id |-> id, email |-> email, username |-> username,
     password_hash |-> Blob(HashPassword(PwGood, Blob(<<7>>))), salt |-> Blob(<<7>>),
     role |-> "User", is_active |-> FALSE, status |-> None]

TokenStores ==
    { {ProvisionedRow(1, "a", None, TRUE)},
      {ProvisionedRow(1, "a", None, TRUE), RegisteredRow(2, "b", "b")},
      {ProvisionedRow(1, "a", "b", TRUE), RegisteredRow(2, "b", "a")} }

TokenInit ==
    /\ schema = "current"
    /\ users \in TokenStores
    /\ nextUserId = Cardinality(users) + 1
    /\ tokens = {}
    /\ nextTokenId = 1
    /\ now = 0
    /\ advances = 0
    /\ sess = [s \in Sessions |-> IdleSession]
    /\ last = NoOp
    /\ registered = {u.id : u \in {r \in users : r.role = "User"}}
    /\ approved = {}
    /\ redeemed = <<>>
    /\ expiredSeen = {}
    /\ issuedAt = <<>>
    /\ verifying = [s \in Sessions |-> IdleVerify]
    /\ ImportInit

\* password-change tokens are requested and redeemed while the clock advances
TokenNext ==
    \/ \E l \in Names, d \in BOOLEAN : RequestPasswordChange(l, d)
    \/ \E t \in TokenInputs, p \in NewPasswords, salt \in Salts :
          VerifyTokenAndChangePassword(t, p, salt)
    \/ \E d \in ClockSteps : Tick(d)

TokenSpec == TokenInit /\ [][TokenNext]_vars

\* two sessions redeem the tokens of one account, each in its own connection
RedeemInit ==
    /\ TokenInit
    /\ Cardinality(users) = 1

RedeemNext ==
    \/ RequestPasswordChange("a", TRUE)
    \/ \E s \in Sessions, t \in 1..MaxTokens, p \in {PwGood, PwShort} : VerifyRead(s, t, p)
    \/ \E s \in Sessions, salt \in Salts : VerifyWrite(s, salt)
    \/ Tick(TTLTicks - 1)

RedeemSpec == RedeemInit /\ [][RedeemNext]_vars

\* two sessions redeem tokens and may die at any statement
CrashNext ==
    \/ RequestPasswordChange("a", TRUE)
    \/ \E s \in Sessions, t \in 1..MaxTokens, p \in {PwGood, PwShort} : VerifyRead(s, t, p)
    \/ \E s \in Sessions, salt \in Salts : VerifyWrite(s, salt)
    \/ \E s \in Sessions, salt \in Salts : VerifyUpdateUsers(s, salt)
    \/ \E s \in Sessions : VerifyUpdateToken(s)
    \/ \E s \in Sessions : VerifyCommit(s)
    \/ \E s \in Sessions : Crash(s)

CrashSpec == RedeemInit /\ [][CrashNext]_vars


(* ======================= the order import ============================== *)
(* ------------------------------ text ----------------------------------- *)
UpperAlpha ==
    <<"A", "B", "C", "D", "E", "F", "G", "H", "I", "J", "K", "L", "M", "N",
      "O", "P", "Q", "R", "S", "T", "U", "V", "W", "X", "Y", "Z">>

LowerAlpha ==
    <<"a", "b", "c", "d", "e", "f", "g", "h", "i", "j", "k", "l", "m", "n",
      "o", "p", "q", "r", "s", "t", "u", "v", "w", "x", "y", "z">>

DecimalDigits == <<"0", "1", "2", "3", "4", "5", "6", "7", "8", "9">>

\* the characters of the model's texts in the order of their code points
CodePointOrder == <<" ", ",", "-", ".", "/">> \o DecimalDigits \o UpperAlpha \o LowerAlpha

IndexIn(seq, c) == CHOOSE i \in DOMAIN seq : seq[i] = c

IsIn(seq, c) == \E i \in DOMAIN seq : seq[i] = c

\* str.lower() and str.upper() of one character
LowerChar(c) == IF IsIn(UpperAlpha, c) THEN LowerAlpha[IndexIn(UpperAlpha, c)] ELSE c

UpperChar(c) == IF IsIn(LowerAlpha, c) THEN UpperAlpha[IndexIn(LowerAlpha, c)] ELSE c

IsAlpha(c) == IsIn(UpperAlpha, c) \/ IsIn(LowerAlpha, c)

\* str.lower()
Lower(s) == [i \in 1..Len(s) |-> LowerChar(s[i])]

\* str.title(): a letter that follows a non-letter is upper-cased, every
\* other letter is lower-cased
Title(s) ==
    [i \in 1..Len(s) |->
        IF i = 1 \/ ~IsAlpha(s[i - 1]) THEN UpperChar(s[i]) ELSE LowerChar(s[i])]

\* s.startswith(p), s.endswith(p), p in s
StartsWith(s, p) == Len(p) <= Len(s) /\ SubSeq(s, 1, Len(p)) = p

EndsWith(s, p) == Len(p) <= Len(s) /\ SubSeq(s, Len(s) - Len(p) + 1, Len(s)) = p

Contains(s, p) == \E i \in 1..(Len(s) - Len(p) + 1) : SubSeq(s, i, i + Len(p) - 1) = p

\* re.sub(r"\s+", "", s)
RemoveWhitespace(s) == SelectSeq(s, LAMBDA c : c # " ")

\* re.sub(r"[^a-z0-9]+", "", s)
KeepLowerAlnum(s) == SelectSeq(s, LAMBDA c : IsIn(LowerAlpha, c) \/ IsIn(DecimalDigits, c))

RECURSIVE Str(_)
\* str(n) of a natural number
Str(n) == IF n < 10 THEN <<DecimalDigits[n + 1]>>
          ELSE Str(n \div 10) \o <<DecimalDigits[(n % 10) + 1]>>

RECURSIVE ZFill(_, _)
\* str.zfill(width)
ZFill(s, width) == IF Len(s) >= width THEN s ELSE ZFill(<<"0">> \o s, width)

RECURSIVE ParseNat(_)
\* the value of a string of decimal digits
ParseNat(s) == IF s = <<>> THEN 0
               ELSE 10 * ParseNat(SubSeq(s, 1, Len(s) - 1)) + (IndexIn(DecimalDigits, s[Len(s)]) - 1)

\* lexicographic order of texts by code point
TextLess(a, b) ==
    \E i \in 1..(Len(b)) :
       /\ \A j \in 1..(i - 1) : j <= Len(a) /\ a[j] = b[j]
       /\ \/ i = Len(a) + 1
          \/ i <= Len(a) /\ IndexIn(CodePointOrder, a[i]) < IndexIn(CodePointOrder, b[i])

(* ------------------------------ cells ---------------------------------- *)
\* a spreadsheet cell is its text; the empty cell is what pandas reads as NaN
NaN == <<>>

\* pd.isna(x)
IsNa(x) == x = NaN

\* _s: "" for NaN, else str(x).strip()
S(x) == IF IsNa(x) THEN <<>> ELSE Strip(x)

\* _f: 0.0 for NaN and for a text float() refuses, else the number after
\* the commas are removed (the model's amounts are whole numbers)
F(x) ==
    IF IsNa(x) THEN 0
    ELSE LET t == Strip(SelectSeq(x, LAMBDA c : c # ",")) IN
         IF t # <<>> /\ \A i \in 1..Len(t) : IsIn(DecimalDigits, t[i])
         THEN ParseNat(t) ELSE 0

(* ------------------------------ normalizers ---------------------------- *)
ALLOWED_STATUS == {<<"P", "e", "n", "d", "i", "n", "g">>, <<"P", "a", "i", "d">>, <<"V", "o", "i", "d", "e", "d">>}

STATUS_MAP ==
    (<<"u", "n", "p", "a", "i", "d">> :>
        <<"P", "e", "n", "d", "i", "n", "g">>) @@
    (<<"n", "e", "w">> :>
        <<"P", "e", "n", "d", "i", "n", "g">>) @@
    (<<"o", "p", "e", "n">> :>
        <<"P", "e", "n", "d", "i", "n", "g">>) @@
    (<<"p", "a", "r", "t", "i", "a", "l", "l", "y", " ", "p", "a", "i", "d">> :>
        <<"P", "e", "n", "d", "i", "n", "g">>) @@
    (<<"p", "a", "r", "t", "i", "a", "l">> :>
        <<"P", "e", "n", "d", "i", "n", "g">>) @@
    (<<"a", "w", "a", "i", "t", "i", "n", "g", " ", "p", "a", "y", "m", "e", "n", "t">> :>
        <<"P", "e", "n", "d", "i", "n", "g">>) @@
    (<<"d", "u", "e">> :>
        <<"P", "e", "n", "d", "i", "n", "g">>) @@
    (<<"c", "a", "n", "c", "e", "l", "l", "e", "d">> :>
        <<"V", "o", "i", "d", "e", "d">>) @@
    (<<"c", "a", "n", "c", "e", "l", "e", "d">> :>
        <<"V", "o", "i", "d", "e", "d">>) @@
    (<<"v", "o", "i", "d">> :>
        <<"V", "o", "i", "d", "e", "d">>) @@
    (<<"v", "o", "i", "d", "e", "d">> :>
        <<"V", "o", "i", "d", "e", "d">>) @@
    (<<"c", "l", "o", "s", "e", "d", " ", "-", " ", "v", "o", "i", "d">> :>
        <<"V", "o", "i", "d", "e", "d">>) @@
    (<<"c", "o", "m", "p", "l", "e", "t", "e">> :>
        <<"P", "a", "i", "d">>) @@
    (<<"c", "o", "m", "p", "l", "e", "t", "e", "d">> :>
        <<"P", "a", "i", "d">>) @@
    (<<"d", "o", "n", "e">> :>
        <<"P", "a", "i", "d">>) @@
    (<<"p", "a", "i", "d", "/", "c", "l", "o", "s", "e", "d">> :>
        <<"P", "a", "i", "d">>) @@
    (<<"s", "e", "t", "t", "l", "e", "d">> :>
        <<"P", "a", "i", "d">>)

NullWords == {<<"n", "a", "n">>, <<"n", "o", "n", "e">>, <<"n", "u", "l", "l">>}

\* _clean_status
CleanStatus(x) ==
    LET s == Strip(x) IN
    IF s = <<>> \/ Lower(s) \in NullWords THEN <<"P", "e", "n", "d", "i", "n", "g">>
    ELSE IF Lower(s) \in DOMAIN STATUS_MAP THEN STATUS_MAP[Lower(s)]
    ELSE Strip(Title(s))

\* _clean_invoice_no
CleanInvoiceNo(x) ==
    LET s == Strip(x)
        t == IF EndsWith(s, <<".", "0">>) THEN SubSeq(s, 1, Len(s) - 2) ELSE s
    IN RemoveWhitespace(t)

ALLOWED_VENDORS ==
    {<<"T", "a", "k", "e", "o", "u", "t", " ", "S", "t", "o", "r", "e">>,
     <<"L", "o", "l", "a", " ", "T", "i", "n", "d", "e", "n", "g">>,
     <<"S", "w", "i", "s", "s", " ", "P", "r", "o", "l", "i">>}

VENDOR_MAP ==
    (<<"t", "a", "k", "e", "o", "u", "t", " ", "s", "t", "o", "r", "e">> :>
        <<"T", "a", "k", "e", "o", "u", "t", " ", "S", "t", "o", "r", "e">>) @@
    (<<"l", "o", "l", "a", " ", "t", "i", "n", "d", "e", "n", "g">> :>
        <<"L", "o", "l", "a", " ", "T", "i", "n", "d", "e", "n", "g">>) @@
    (<<"s", "w", "i", "s", "s", " ", "p", "r", "o", "l", "i">> :>
        <<"S", "w", "i", "s", "s", " ", "P", "r", "o", "l", "i">>) @@
    (<<"s", "w", "i", "s", "s", " ", "p", "r", "o", "l", "i", ".">> :>
        <<"S", "w", "i", "s", "s", " ", "P", "r", "o", "l", "i">>) @@
    (<<"s", "w", "i", "s", "s", "-", "p", "r", "o", "l", "i">> :>
        <<"S", "w", "i", "s", "s", " ", "P", "r", "o", "l", "i">>) @@
    (<<"s", "w", "i", "s", "s", "p", "r", "o", "l", "i">> :>
        <<"S", "w", "i", "s", "s", " ", "P", "r", "o", "l", "i">>) @@
    (<<"s", "w", "i", "s", "s", " ", "p", "r", "o", "l", "i", "f", "e">> :>
        <<"S", "w", "i", "s", "s", " ", "P", "r", "o", "l", "i">>) @@
    (<<"t", "a", "k", "e", "o", "u", "t", "s", "t", "o", "r", "e">> :>
        <<"T", "a", "k", "e", "o", "u", "t", " ", "S", "t", "o", "r", "e">>) @@
    (<<"t", "a", "k", "e", "o", "u", "t", "s", "t", "o", "r", "e", "p", "h">> :>
        <<"T", "a", "k", "e", "o", "u", "t", " ", "S", "t", "o", "r", "e">>) @@
    (<<"t", "a", "k", "e", "o", "u", "t", "-", "s", "t", "o", "r", "e">> :>
        <<"T", "a", "k", "e", "o", "u", "t", " ", "S", "t", "o", "r", "e">>) @@
    (<<"t", "a", "k", "e", "o", "u", "t", " ", "s", "t", "o", "r", "e", " ", "p", "h">> :>
        <<"T", "a", "k", "e", "o", "u", "t", " ", "S", "t", "o", "r", "e">>) @@
    (<<"t", "a", "k", "e", "o", "u", "t", "s", "t", "o", "r", "e", "-", "p", "h">> :>
        <<"T", "a", "k", "e", "o", "u", "t", " ", "S", "t", "o", "r", "e">>)

\* _clean_vendor
CleanVendor(x) ==
    LET s == Strip(x)
        low == Strip(Lower(s))
        alnum == KeepLowerAlnum(low)
    IN IF s = <<>> \/ Lower(s) \in NullWords THEN <<>>
       ELSE IF low \in DOMAIN VENDOR_MAP THEN VENDOR_MAP[low]
       ELSE IF StartsWith(alnum, <<"t", "a", "k", "e", "o", "u", "t">>) THEN <<"T", "a", "k", "e", "o", "u", "t", " ", "S", "t", "o", "r", "e">>
       ELSE IF Contains(alnum, <<"l", "o", "l", "a">>) /\ Contains(alnum, <<"t", "i", "n", "d", "e", "n", "g">>)
            THEN <<"L", "o", "l", "a", " ", "T", "i", "n", "d", "e", "n", "g">>
       ELSE IF Contains(alnum, <<"s", "w", "i", "s", "s">>) /\ Contains(alnum, <<"p", "r", "o", "l", "i">>)
            THEN <<"S", "w", "i", "s", "s", " ", "P", "r", "o", "l", "i">>
       ELSE Strip(Title(s))

(* ------------------------------ uploaded rows -------------------------- *)
\* one row of the uploaded sheet: the cells of the columns the import reads
\* (a column the sheet lacks reads as a column of empty cells; the sheets of
\* the model have no "Id" column, so render groups them by "Name")
Row(name, status, vendor, receipt, qty, lname, price, sku, subtotal, discount, total, ldiscount) ==
    [Name |-> name, Financial_Status |-> status, Vendor |-> vendor,
     Receipt_Number |-> receipt, Lineitem_quantity |-> qty,
     Lineitem_name |-> lname, Lineitem_price |-> price, Lineitem_sku |-> sku,
     Subtotal |-> subtotal, Discount_Amount |-> discount, Total |-> total,
     Lineitem_discount |-> ldiscount]

\* df.dropna(how="all")
DropNa(rows) == SelectSeq(rows, LAMBDA r : \E c \in DOMAIN r : ~IsNa(r[c]))

RECURSIVE DropDuplicates(_)
\* drop_duplicates(): the first of equal entries stays
DropDuplicates(seq) ==
    IF seq = <<>> THEN <<>>
    ELSE LET rest == DropDuplicates(SubSeq(seq, 1, Len(seq) - 1))
             x == seq[Len(seq)]
         IN IF \E i \in DOMAIN rest : rest[i] = x THEN rest ELSE Append(rest, x)

RECURSIVE SortedKeys(_)
\* the group keys in the order of df.groupby(key, dropna=False): ascending,
\* the NaN key last
SortedKeys(keys) ==
    IF keys = {} THEN <<>>
    ELSE IF keys = {NaN} THEN <<NaN>>
    ELSE LET k == CHOOSE a \in keys \ {NaN} : \A b \in keys \ {NaN, a} : TextLess(a, b)
         IN <<k>> \o SortedKeys(keys \ {k})

\* the (gkey, sub) pairs of df.groupby("Name", dropna=False)
GroupsOf(rows) ==
    LET keys == SortedKeys({rows[i].Name : i \in DOMAIN rows}) IN
    [n \in DOMAIN keys |->
        [gkey |-> keys[n],
         sub |-> SelectSeq(rows, LAMBDA r : r.Name = keys[n])]]

RECURSIVE SumOf(_, _)
\* sum(i[field] for i in seq)
SumOf(seq, field) ==
    IF seq = <<>> THEN 0 ELSE seq[1][field] + SumOf(Tail(seq), field)

Max(a, b) == IF a >= b THEN a ELSE b

\* the bucket key of _aggregate_items
ItemKey(it) == <<it.product_code, it.product_name, it.price, it.unit>>

\* _aggregate_items summing the line totals but keeping the quantity of the
\* first item of a bucket
AggregateItems_KeepsFirstQuantity(its) ==
    LET keys == DropDuplicates([i \in DOMAIN its |-> ItemKey(its[i])]) IN
    [n \in DOMAIN keys |->
        LET same == SelectSeq(its, LAMBDA it : ItemKey(it) = keys[n]) IN
        [product_code |-> keys[n][1], product_name |-> keys[n][2],
         price |-> keys[n][3], unit |-> keys[n][4],
         quantity |-> same[1].quantity,
         total_amount |-> SumOf(same, "total_amount")]]

\* _aggregate_items: one item per (code, name, price, unit) in the order of
\* first appearance, quantities and line totals summed
AggregateItems(its) ==
    LET keys == DropDuplicates([i \in DOMAIN its |-> ItemKey(its[i])]) IN
    [n \in DOMAIN keys |->
        LET same == SelectSeq(its, LAMBDA it : ItemKey(it) = keys[n]) IN
        [product_code |-> keys[n][1], product_name |-> keys[n][2],
         price |-> keys[n][3], unit |-> keys[n][4],
         quantity |-> SumOf(same, "quantity"),
         total_amount |-> SumOf(same, "total_amount")]]

\* the items loop of _header_from_group: a row with zero quantity and no
\* product name is dropped
ItemsOfRows(sub) ==
    LET kept == SelectSeq(sub, LAMBDA r : ~(F(r.Lineitem_quantity) = 0 /\ IsNa(r.Lineitem_name))) IN
    [i \in DOMAIN kept |->
        [product_code |-> S(kept[i].Lineitem_sku),
         product_name |-> S(kept[i].Lineitem_name),
         unit |-> <<>>,
         quantity |-> F(kept[i].Lineitem_quantity),
         price |-> F(kept[i].Lineitem_price),
         total_amount |-> F(kept[i].Lineitem_quantity) * F(kept[i].Lineitem_price)]]

\* the items _header_from_group returns
ItemsFromGroup(sub, combine_items) ==
    IF combine_items /\ ItemsOfRows(sub) # <<>>
    THEN AggregateItems(ItemsOfRows(sub))
    ELSE ItemsOfRows(sub)

\* the header with a total that is not held at zero from below
HeaderOf_TotalNotFloored(first, items_total) ==
    [invoice_no |-> CleanInvoiceNo(S(first.Name)),
     financial_status |-> CleanStatus(S(first.Financial_Status)),
     vendor |-> CleanVendor(S(first.Vendor)),
     receipt_number |-> S(first.Receipt_Number),
     subtotal |-> IF F(first.Subtotal) = 0 THEN items_total ELSE F(first.Subtotal),
     discount_amount |-> IF F(first.Discount_Amount) = 0
                         THEN F(first.Lineitem_discount)
                         ELSE F(first.Discount_Amount),
     total |-> IF F(first.Total) = 0
               THEN (IF F(first.Subtotal) = 0 THEN items_total ELSE F(first.Subtotal))
                    - (IF F(first.Discount_Amount) = 0
                       THEN F(first.Lineitem_discount)
                       ELSE F(first.Discount_Amount))
               ELSE F(first.Total)]

\* the header fields _header_from_group derives from the first row of the
\* group and the sum of the line totals of its items
HeaderOf(first, items_total) ==
    [invoice_no |-> CleanInvoiceNo(S(first.Name)),
     financial_status |-> CleanStatus(S(first.Financial_Status)),
     vendor |-> CleanVendor(S(first.Vendor)),
     receipt_number |-> S(first.Receipt_Number),
     subtotal |-> IF F(first.Subtotal) = 0 THEN items_total ELSE F(first.Subtotal),
     discount_amount |-> IF F(first.Discount_Amount) = 0
                         THEN F(first.Lineitem_discount)
                         ELSE F(first.Discount_Amount),
     total |-> IF F(first.Total) = 0
               THEN Max((IF F(first.Subtotal) = 0 THEN items_total ELSE F(first.Subtotal))
                        - (IF F(first.Discount_Amount) = 0
                           THEN F(first.Lineitem_discount)
                           ELSE F(first.Discount_Amount)), 0)
               ELSE F(first.Total)]

\* the header _header_from_group returns
HeaderFromGroup(sub, combine_items) ==
    HeaderOf(sub[1], SumOf(ItemsFromGroup(sub, combine_items), "total_amount"))

(* ------------------------------ uploaded sheets ------------------------ *)
\* two orders: 1001 in two rows of the same product and price, 1002 typed
\* as 1002.0; the last row is an exact copy of the one before
OrdersSheet ==
    [rows |-> <<
        Row(<<"1", "0", "0", "1">>, <<"U", "n", "p", "a", "i", "d">>, <<"t", "a", "k", "e", "o", "u", "t", " ", "s", "t", "o", "r", "e">>, NaN,
            <<"1">>, <<"T", "e", "a">>, <<"5">>, <<"A", "1">>,
            NaN, NaN, NaN, NaN),
        Row(<<"1", "0", "0", "1">>, NaN, NaN, NaN,
            <<"2">>, <<"T", "e", "a">>, <<"5">>, <<"A", "1">>,
            NaN, NaN, NaN, NaN),
        Row(<<"1", "0", "0", "2", ".", "0">>, <<"p", "a", "i", "d">>, <<"L", "o", "l", "a", " ", "T", "i", "n", "d", "e", "n", "g">>, NaN,
            <<"1">>, <<"C", "u", "p">>, <<"3">>, <<"B", "2">>,
            NaN, NaN, NaN, NaN),
        Row(<<"1", "0", "0", "2", ".", "0">>, <<"p", "a", "i", "d">>, <<"L", "o", "l", "a", " ", "T", "i", "n", "d", "e", "n", "g">>, NaN,
            <<"1">>, <<"C", "u", "p">>, <<"3">>, <<"B", "2">>,
            NaN, NaN, NaN, NaN)>>,
     lineitem_name_twice |-> FALSE]

\* the two orders again with other items; 1001 now carries a receipt number
\* of its own
RevisedSheet ==
    [rows |-> <<
        Row(<<"1", "0", "0", "1">>, <<"p", "a", "i", "d">>, <<"t", "a", "k", "e", "o", "u", "t", " ", "s", "t", "o", "r", "e">>, <<"R", "9">>,
            <<"4">>, <<"C", "u", "p">>, <<"3">>, <<"B", "2">>,
            NaN, NaN, NaN, NaN),
        Row(<<"1", "0", "0", "2">>, <<"s", "e", "t", "t", "l", "e", "d">>, <<"l", "o", "l", "a", "-", "t", "i", "n", "d", "e", "n", "g">>, NaN,
            <<"2">>, <<"T", "e", "a">>, <<"5">>, <<"A", "1">>,
            NaN, NaN, NaN, NaN)>>,
     lineitem_name_twice |-> FALSE]

\* an unknown status, an unknown vendor, an order without a name, an empty
\* row, and one good order
RejectsSheet ==
    [rows |-> <<
        Row(<<"2", "0", "0", "1">>, <<"g", "a", "r", "b", "a", "g", "e", "-", "v", "a", "l", "u", "e">>, <<"T", "a", "k", "e", "o", "u", "t", " ", "S", "t", "o", "r", "e">>, NaN,
            <<"1">>, <<"T", "e", "a">>, <<"5">>, <<"A", "1">>,
            NaN, NaN, NaN, NaN),
        Row(<<"2", "0", "0", "2">>, <<"p", "a", "i", "d">>, <<"a", "c", "m", "e">>, NaN,
            <<"1">>, <<"T", "e", "a">>, <<"5">>, <<"A", "1">>,
            NaN, NaN, NaN, NaN),
        Row(NaN, <<"p", "a", "i", "d">>, <<"s", "w", "i", "s", "s", "-", "p", "r", "o", "l", "i">>, NaN,
            <<"1">>, <<"C", "u", "p">>, <<"3">>, <<"B", "2">>,
            NaN, NaN, NaN, NaN),
        Row(NaN, NaN, NaN, NaN,
            NaN, NaN, NaN, NaN,
            NaN, NaN, NaN, NaN),
        Row(<<" ", "1", "0", " ", "0", "3", " ">>, <<"O", "P", "E", "N">>, <<"S", "w", "i", "s", "s", " ", "P", "r", "o", "l", "i", ".">>, NaN,
            <<"0">>, <<"C", "u", "p">>, <<"3">>, <<"B", "2">>,
            NaN, NaN, NaN, NaN)>>,
     lineitem_name_twice |-> FALSE]

\* three orders with amounts of their own: 3001 with a line discount
\* larger than its lines, 3002 with a subtotal and a discount amount, 3003
\* with a total; 3001 and 3002 carry the same receipt number
LedgerSheet ==
    [rows |-> <<
        Row(<<"3", "0", "0", "1">>, <<"p", "a", "i", "d">>, <<"T", "a", "k", "e", "o", "u", "t", " ", "S", "t", "o", "r", "e">>, <<"R", "7">>,
            <<"2">>, <<"T", "e", "a">>, <<"5">>, <<"A", "1">>,
            NaN, NaN, NaN, <<"2", "0">>),
        Row(<<"3", "0", "0", "2">>, <<"p", "a", "i", "d">>, <<"T", "a", "k", "e", "o", "u", "t", " ", "S", "t", "o", "r", "e">>, <<"R", "7">>,
            <<"1">>, <<"C", "u", "p">>, <<"3">>, <<"B", "2">>,
            <<"9">>, <<"4">>, NaN, NaN),
        Row(<<"3", "0", "0", "3">>, <<"p", "a", "i", "d">>, <<"T", "a", "k", "e", "o", "u", "t", " ", "S", "t", "o", "r", "e">>, NaN,
            <<"1">>, <<"C", "u", "p">>, <<"3">>, <<"B", "2">>,
            NaN, NaN, <<"7">>, NaN)>>,
     lineitem_name_twice |-> FALSE]

\* the orders sheet with two header cells that both read "Lineitem name"
\* once render has stripped the column names
RepeatedColumnSheet == [OrdersSheet EXCEPT !.lineitem_name_twice = TRUE]

Sheets == {OrdersSheet, RevisedSheet, RejectsSheet, LedgerSheet, RepeatedColumnSheet}

(* ------------------------------ document numbers ----------------------- *)
DOC_PREFIX == <<"I", "N", "V">>
DOC_PAD == 4
\* the year in which the months of the model start to count
FirstYear == 2025

\* when.strftime("%Y%m") for the month counted from January of FirstYear
YearMonth(m) == Str(FirstYear + (m \div 12)) \o ZFill(Str((m % 12) + 1), 2)

\* seq_name of _next_doc_no
SeqName(m) == DOC_PREFIX \o <<"-">> \o YearMonth(m)

\* the value, or 0 for no row, of SELECT value FROM sequences WHERE name=?
SequenceValue(seq_name) ==
    IF \E r \in sequences : r.name = seq_name
    THEN (CHOOSE r \in sequences : r.name = seq_name).value
    ELSE 0

\* a sequence that counts in twos
NextSeqValue_SkipsOne(value) == value + 2

\* seq of _next_doc_no from the value it read (0: no row)
NextSeqValue(value) == IF value = 0 THEN 1 ELSE value + 1

\* the sequences table after the INSERT or UPDATE of _next_doc_no
SequencesWith(seq_name, seq) ==
    {r \in sequences : r.name # seq_name} \cup {[name |-> seq_name, value |-> seq]}

\* the document number _next_doc_no returns
DocNo(seq_name, seq) == seq_name \o <<"-">> \o ZFill(Str(seq), DOC_PAD)

\* _next_doc_no in session s up to the row its SELECT fetches.  "with conn"
\* opens no transaction: sqlite3 begins one at the first INSERT or UPDATE,
\* so the row is read without a lock that lasts to the write
NextDocRead(s) ==
    /\ numbering[s].pc = "idle"
    /\ Len(issued) < MaxIssued
    /\ numbering' = [numbering EXCEPT ![s] =
                        [pc |-> "read", seq_name |-> SeqName(month),
                         value |-> SequenceValue(SeqName(month))]]
    /\ UNCHANGED <<authVars, sales, nextSaleId, sales_items, sequences, audit_log,
                   month, run, issued, previous>>

\* the INSERT of a session that read no row fails on the primary key of
\* sequences when another session has inserted the row since
InsertRaises(s) ==
    /\ numbering[s].value = 0
    /\ SequenceValue(numbering[s].seq_name) # 0

\* the rest of _next_doc_no in session s: the INSERT or UPDATE with the
\* value computed from the row read, the commit and the returned number;
\* a failed INSERT raises IntegrityError and returns no number
NextDocWrite(s) ==
    /\ numbering[s].pc = "read"
    /\ numbering' = [numbering EXCEPT ![s] = IdleNumbering]
    /\ IF InsertRaises(s)
       THEN UNCHANGED <<sequences, issued>>
       ELSE /\ sequences' = SequencesWith(numbering[s].seq_name,
                                          NextSeqValue(numbering[s].value))
            /\ issued' = Append(issued,
                                [name |-> numbering[s].seq_name,
                                 doc |-> DocNo(numbering[s].seq_name,
                                               NextSeqValue(numbering[s].value))])
    /\ UNCHANGED <<authVars, sales, nextSaleId, sales_items, audit_log, month, run,
                   previous>>

(* ------------------------------ _save_order ---------------------------- *)
\* a look-up that never finds the stored header
SalesByInvoice_NeverFinds(inv) == {}

\* the rows of SELECT ... FROM sales WHERE invoice_no = ?
SalesByInvoice(inv) == {r \in sales : r.invoice_no = inv}

\* the sale id _save_order works on: the existing row's, or the next rowid
SaleIdFor(header) ==
    IF SalesByInvoice(header.invoice_no) # {}
    THEN (CHOOSE r \in SalesByInvoice(header.invoice_no) : TRUE).id
    ELSE nextSaleId

SalesRow(sid, header) ==
    [id |-> sid, invoice_no |-> header.invoice_no,
     financial_status |-> header.financial_status, vendor |-> header.vendor,
     receipt_number |-> header.receipt_number, subtotal |-> header.subtotal,
     discount_amount |-> header.discount_amount, total |-> header.total]

\* the sales table after _save_order: UPDATE of the existing header, or INSERT
SalesAfterSave(header) ==
    {r \in sales : r.invoice_no # header.invoice_no}
       \cup {SalesRow(SaleIdFor(header), header)}

\* _save_order inserting the new items without deleting the old ones
ItemsAfterSave_Merges(header, its) ==
    sales_items \cup
       {[sale_id |-> SaleIdFor(header), line_no |-> i,
         product_code |-> its[i].product_code, product_name |-> its[i].product_name,
         unit |-> its[i].unit, quantity |-> its[i].quantity,
         price |-> its[i].price, total_amount |-> its[i].total_amount] : i \in DOMAIN its}

\* the sales_items table after _save_order: the sale's old items deleted,
\* the new ones inserted with line_no 1..n (the rows' own ids are left out)
ItemsAfterSave(header, its) ==
    {r \in sales_items : r.sale_id # SaleIdFor(header)} \cup
       {[sale_id |-> SaleIdFor(header), line_no |-> i,
         product_code |-> its[i].product_code, product_name |-> its[i].product_name,
         unit |-> its[i].unit, quantity |-> its[i].quantity,
         price |-> its[i].price, total_amount |-> its[i].total_amount] : i \in DOMAIN its}

(* ------------------------------ render: the import -------------------- *)
MsgInvalidStatus == "Invalid financial_status after normalization"
MsgInvalidVendor == "Invalid vendor after normalization"
MsgMissingInvoice == "Missing invoice_no after normalization"
MsgAmbiguous == "The truth value of a Series is ambiguous."
MsgLocked == "database is locked"

\* the steps of one group's processing that use a database
DbSteps == {"next_doc_no", "exists", "save_order", "audit"}

\* str(gkey)
StrOfKey(gkey) == IF IsNa(gkey) THEN <<"n", "a", "n">> ELSE gkey

\* the gate without its vendor check
GateFailure_NoVendorCheck(header) ==
    IF header.financial_status \notin ALLOWED_STATUS THEN "skip_invalid_status"
    ELSE IF header.invoice_no = <<>> THEN "skip_missing_invoice_no"
    ELSE ""

\* the validation gate of render in the order of its checks: the action it
\* logs for a group it skips, "" for a group it lets through
GateFailure(header) ==
    IF header.financial_status \notin ALLOWED_STATUS THEN "skip_invalid_status"
    ELSE IF header.vendor \notin ALLOWED_VENDORS THEN "skip_invalid_vendor"
    ELSE IF header.invoice_no = <<>> THEN "skip_missing_invoice_no"
    ELSE ""

GateMessage(action) ==
    IF action = "skip_invalid_status" THEN MsgInvalidStatus
    ELSE IF action = "skip_invalid_vendor" THEN MsgInvalidVendor
    ELSE MsgMissingInvoice

\* the row _audit_log inserts (ts, user and public_ip left out; a NULL
\* document_no is the empty text)
AuditEntry(action, invoice_no, document_no, details) ==
    [module |-> "settings_import", action |-> action, invoice_no |-> invoice_no,
     document_no |-> document_no, details |-> details]

\* the Import button: the sheet is read, empty and repeated rows are
\* dropped, the rows are grouped and the counters start at zero
StartImport(file, combine_items) ==
    /\ run.pc # "running"
    /\ run.n < MaxRuns
    /\ run' = [pc |-> "running", n |-> run.n + 1, file |-> file,
               combine_items |-> combine_items,
               groups |-> GroupsOf(DropDuplicates(DropNa(file.rows))),
               imported |-> 0, updated |-> 0, skipped |-> 0, issues |-> <<>>]
    /\ previous' = [run |-> run, sales |-> sales, sales_items |-> sales_items]
    /\ UNCHANGED <<authVars, sales, nextSaleId, sales_items, sequences,
                   audit_log, month, numbering, issued>>

\* where an exception leaves the try block of one pass, "" if nowhere:
\* _header_from_group raises on a sheet with a repeated "Lineitem name"
\* column (row.get returns a Series whose truth value is ambiguous), and
\* the database step named by fault raises if the pass gets to it
RaisedAt(twice, gate, needs_doc, fault) ==
    IF twice THEN "header"
    ELSE IF gate # "" THEN (IF fault = "audit" THEN "audit" ELSE "")
    ELSE IF fault = "next_doc_no" THEN (IF needs_doc THEN fault ELSE "")
    ELSE IF fault \in DbSteps THEN fault
    ELSE ""

\* the receipt number of the stored header of this invoice, "" if none
KeptReceipt(inv) ==
    IF SalesByInvoice(inv) # {}
    THEN (CHOOSE r \in SalesByInvoice(inv) : TRUE).receipt_number
    ELSE <<>>

\* the header with the sheet's own receipt number put before the stored one
HeaderToSave_TakesSheetReceipt(header0) ==
    [header0 EXCEPT !.receipt_number =
        IF @ # <<>> THEN @
        ELSE IF KeptReceipt(header0.invoice_no) # <<>> THEN KeptReceipt(header0.invoice_no)
        ELSE DocNo(SeqName(month), NextSeqValue(SequenceValue(SeqName(month))))]

\* the header render hands to _save_order: a header without a receipt
\* number gets the next document number, and the receipt number of a stored
\* header of the same invoice replaces either
HeaderToSave(header0) ==
    [header0 EXCEPT !.receipt_number =
        IF KeptReceipt(header0.invoice_no) # <<>> THEN KeptReceipt(header0.invoice_no)
        ELSE IF @ = <<>>
        THEN DocNo(SeqName(month), NextSeqValue(SequenceValue(SeqName(month))))
        ELSE @]

\* the audit entry of a pass that raises nothing
PassEntry(header0, header, gate, exists) ==
    IF gate # ""
    THEN AuditEntry(gate, header0.invoice_no, <<>>,
                    [key |-> "reason", text |-> GateMessage(gate), sale_id |-> 0])
    ELSE AuditEntry(IF exists THEN "update" ELSE "insert",
                    header.invoice_no, header.receipt_number,
                    [key |-> "sale_id", text |-> "", sale_id |-> SaleIdFor(header)])

\* the except branch logging under an action of its own
ErrorEntry_OtherAction(gkey, raised) ==
    AuditEntry("exception", StrOfKey(gkey), <<>>,
               [key |-> "error",
                text |-> IF raised = "header" THEN MsgAmbiguous ELSE MsgLocked,
                sale_id |-> 0])

\* the audit entry of the except branch
ErrorEntry(gkey, raised) ==
    AuditEntry("error", StrOfKey(gkey), <<>>,
               [key |-> "error",
                text |-> IF raised = "header" THEN MsgAmbiguous ELSE MsgLocked,
                sale_id |-> 0])

\* the issues list after the pass
IssuesAfter(gkey, gate, skips, raised) ==
    (IF skips THEN Append(run.issues, [gkey |-> StrOfKey(gkey), msg |-> GateMessage(gate)])
     ELSE run.issues)
    \o (IF raised # ""
        THEN <<[gkey |-> StrOfKey(gkey),
                msg |-> IF raised = "header" THEN MsgAmbiguous ELSE MsgLocked]>>
        ELSE <<>>)

\* the body of the loop for the group gkey with the header and items derived
\* from it: the gate, the document number, the look-up of the stored
\* header, _save_order, the counters and the audit entry, up to the step
\* where raised says an exception leaves the try block; then the except
\* branch
GroupPass(gkey, header0, items, gate, raised, exists, header, handler_fault) ==
    LET skips == raised # "header" /\ gate # ""
        numbered == /\ raised \notin {"header", "next_doc_no"}
                    /\ gate = ""
                    /\ header0.receipt_number = <<>>
        saved == raised \in {"", "audit"} /\ gate = ""
        aborted == raised # "" /\ handler_fault
    IN /\ sequences' = IF numbered
                       THEN SequencesWith(SeqName(month), NextSeqValue(SequenceValue(SeqName(month))))
                       ELSE sequences
       /\ issued' = IF numbered
                    THEN Append(issued, [name |-> SeqName(month),
                                         doc |-> DocNo(SeqName(month),
                                                       NextSeqValue(SequenceValue(SeqName(month))))])
                    ELSE issued
       /\ sales' = IF saved THEN SalesAfterSave(header) ELSE sales
       /\ sales_items' = IF saved THEN ItemsAfterSave(header, items) ELSE sales_items
       /\ nextSaleId' = IF saved /\ ~exists THEN nextSaleId + 1 ELSE nextSaleId
       /\ audit_log' = IF raised = "" THEN Append(audit_log, PassEntry(header0, header, gate, exists))
                       ELSE IF handler_fault THEN audit_log
                       ELSE Append(audit_log, ErrorEntry(gkey, raised))
       /\ run' = [run EXCEPT
                    !.pc = IF aborted THEN "aborted" ELSE @,
                    !.groups = IF aborted THEN <<>> ELSE Tail(@),
                    !.imported = IF saved /\ ~exists THEN @ + 1 ELSE @,
                    !.updated = IF saved /\ exists THEN @ + 1 ELSE @,
                    !.skipped = @ + (IF skips THEN 1 ELSE 0) + (IF raised # "" THEN 1 ELSE 0),
                    !.issues = IssuesAfter(gkey, gate, skips, raised)]

\* the pass for a derived header
HeaderPass(gkey, header0, items, fault, handler_fault) ==
    GroupPass(gkey, header0, items,
              GateFailure(header0),
              RaisedAt(run.file.lineitem_name_twice, GateFailure(header0),
                       header0.receipt_number = <<>>, fault),
              SalesByInvoice(header0.invoice_no) # {},
              HeaderToSave(header0),
              handler_fault)

\* one pass of the loop over the groups.  fault names the database step of
\* this pass that raises (or "none"); handler_fault tells whether the
\* _audit_log call of the except branch raises as well, which ends render
ImportGroup(fault, handler_fault) ==
    /\ run.pc = "running"
    /\ run.groups # <<>>
    /\ HeaderPass(Head(run.groups).gkey,
                  HeaderFromGroup(Head(run.groups).sub, run.combine_items),
                  ItemsFromGroup(Head(run.groups).sub, run.combine_items),
                  fault, handler_fault)
    /\ UNCHANGED <<authVars, month, numbering, previous>>

\* the loop has ended: render shows the counts and the issues
FinishImport ==
    /\ run.pc = "running"
    /\ run.groups = <<>>
    /\ run' = [run EXCEPT !.pc = "done"]
    /\ UNCHANGED <<authVars, sales, nextSaleId, sales_items, sequences,
                   audit_log, month, numbering, issued, previous>>

\* datetime.utcnow() passes into the next month
AdvanceMonth ==
    /\ month < MaxMonths
    /\ month' = month + 1
    /\ UNCHANGED <<authVars, sales, nextSaleId, sales_items, sequences,
                   audit_log, run, numbering, issued, previous>>

\* the uploaded sheets are imported one run after the other
ImportInitial ==
    /\ Init
    /\ schema = "current"

ImportNext ==
    \/ \E file \in Sheets, combine_items \in BOOLEAN : StartImport(file, combine_items)
    \/ ImportGroup("none", FALSE)
    \/ FinishImport
    \/ AdvanceMonth

ImportSpec == ImportInitial /\ [][ImportNext]_vars

\* the same import on a database that may refuse a statement ("database is
\* locked", raised by sqlite3 when another connection holds the write lock
\* past the timeout): any database step of a pass may raise, and so may
\* the _audit_log call of the except branch
Faults == DbSteps \cup {"none"}

FaultSheets == {OrdersSheet, RejectsSheet, RepeatedColumnSheet}

FaultNext ==
    \/ \E file \in FaultSheets : StartImport(file, TRUE)
    \/ \E fault \in Faults, handler_fault \in BOOLEAN : ImportGroup(fault, handler_fault)
    \/ FinishImport

FaultSpec == ImportInitial /\ [][FaultNext]_vars

\* the statements of the transaction of _save_order for a stored invoice
SaveSteps == {"update", "delete", "insert"}

\* sales_items as the transaction of _save_order has it once the statement
\* step has run: the header is updated first, then the items of the sale
\* are deleted, then the new items are inserted
ItemsAtStep(header, its, step) ==
    IF step = "update" THEN sales_items
    ELSE IF step = "delete" THEN {r \in sales_items : r.sale_id # SaleIdFor(header)}
    ELSE ItemsAfterSave(header, its)

\* a pass whose process dies inside "with conn:" of _save_order once the
\* statement step has run.  _next_doc_no has committed before; the
\* transaction of _save_order is open, and the database file keeps what
\* Durable says of it
SaveCrash(header0, its, step) ==
    /\ GateFailure(header0) = ""
    /\ SalesByInvoice(header0.invoice_no) # {}
    /\ sequences' = IF header0.receipt_number = <<>>
                     THEN SequencesWith(SeqName(month),
                                        NextSeqValue(SequenceValue(SeqName(month))))
                     ELSE sequences
    /\ issued' = IF header0.receipt_number = <<>>
                  THEN Append(issued, [name |-> SeqName(month),
                                       doc |-> DocNo(SeqName(month),
                                                     NextSeqValue(SequenceValue(SeqName(month))))])
                  ELSE issued
    /\ sales' = Durable(sales, SalesAfterSave(HeaderToSave(header0)))
    /\ sales_items' = Durable(sales_items, ItemsAtStep(HeaderToSave(header0), its, step))
    /\ run' = [run EXCEPT !.pc = "crashed"]
    /\ UNCHANGED <<authVars, nextSaleId, audit_log, month, numbering, previous>>

CrashInSave(step) ==
    /\ run.pc = "running"
    /\ run.groups # <<>>
    /\ ~run.file.lineitem_name_twice
    /\ SaveCrash(HeaderFromGroup(Head(run.groups).sub, run.combine_items),
                 ItemsFromGroup(Head(run.groups).sub, run.combine_items), step)

\* imports of which one may end inside _save_order
SaveNext ==
    \/ \E file \in {OrdersSheet, RevisedSheet, RejectsSheet}, combine_items \in BOOLEAN :
          StartImport(file, combine_items)
    \/ ImportGroup("none", FALSE)
    \/ FinishImport
    \/ \E step \in SaveSteps : CrashInSave(step)

SaveSpec == ImportInitial /\ [][SaveNext]_vars

\* two import sessions take document numbers, each on its own connection
SequenceNext ==
    \/ \E s \in Sessions : NextDocRead(s)
    \/ \E s \in Sessions : NextDocWrite(s)
    \/ AdvanceMonth

SequenceSpec == ImportInitial /\ [][SequenceNext]_vars

(* ------------------------------ properties ----------------------------- *)
IsSalted(u) == ToBytes(u.salt) \notin {<<>>, ZeroSalt}

\* a login attempt has just ended: check_password refused it, or the
\* account lookup of _do_login ran
LoginDone == (last.op = "check_password" /\ ~last.ok) \/ last.op = "login"

\* C1: for accounts stored with a salted hash, check_password(login, password)
\* returns True exactly when some account has that login as email or
\* username, is active, and has that password
C1_CheckPasswordIffActiveAndMatching ==
    (last.op = "check_password" /\ \A u \in RowsByLogin(last.login) : IsSalted(u))
    => (last.ok <=> \E u \in users : /\ (u.email = last.login \/ u.username = last.login)
                                     /\ u.is_active
                                     /\ DigestMatches(u, last.password))

\* C4: a register submission that meets an account with the same email or
\* username is answered with the conflict message
C4_RegisterDuplicateIsConflict ==
    (last.op = "register" /\ last.aux \in {"existing", "IntegrityError"})
    => (~last.ok /\ last.msg = MsgConflict)

\* C5: a failed login with identifier and password given shows one and the
\* same error, whatever the cause and however the administrator's actions
\* interleave with _do_login
C5_SingleLoginError ==
    \A s \in Sessions : sess[s].login_error \in {"", MsgLoginRequired, MsgInvalidOrInactive}

\* C6: a registered account cannot log in before the administrator has
\* activated it, and once activated it logs in with its registered password
\* and gets role User
C6_ActivationEnablesLogin ==
    \A u \in users :
       (/\ u.id \in registered
        /\ LoginDone
        /\ RowsByLogin(last.login) = {u}
        /\ DigestMatches(u, last.password))
       => /\ last.ok <=> u.id \in approved
          /\ last.ok => last.aux = "User"

\* C9: check_password with the stored plaintext of an active empty-salt
\* account succeeds and leaves a salted hash of that password; an account
\* with a salted hash never meets the legacy test again
C9_LegacyUpgradeOnce ==
    /\ \A u \in users :
          (last.op = "check_password" /\ last.uid = u.id /\ u.is_active)
          => /\ ~(u.password_hash = TextValue(last.password) /\ ~IsSalted(u))
             /\ last.aux = "legacy" => (last.ok /\ IsSalted(u) /\ DigestMatches(u, last.password))
    /\ \A u \in users, p \in Passwords : IsSalted(u) => ~IsLegacyMatch(u, p)

\* C10: no two accounts share an email, and no two accounts that have a
\* username share a username
C10_UniqueEmailAndUsername ==
    \A u \in users, v \in users :
       u.id # v.id => /\ u.email # v.email
                      /\ (u.username # None /\ v.username # None) => u.username # v.username

\* two sessions raced to insert the same account and the loser was refused
C10_Witness ==
    /\ Cardinality(users) = 2
    /\ last.aux = "IntegrityError"

\* a consumed mark stays, no token is redeemed twice, and a token that was
\* once refused as expired is not redeemed afterwards
TokenStaysSpent ==
    /\ \A t \in tokens : t.used_at # Null =>
          \E t2 \in tokens' : t2.id = t.id /\ t2.used_at # Null
    /\ \A i \in DOMAIN redeemed' : redeemed'[i] <= 1
    /\ \A i \in DOMAIN redeemed : redeemed'[i] > redeemed[i] => i \notin expiredSeen

\* redeeming a consumed token with one of the passwords pws is refused as
\* already used
SpentTokenRefused(pws) ==
    \A tok \in TokenInputs, pw \in pws, salt \in Salts :
       (/\ \E t \in tokens : t.token = tok /\ t.used_at # Null
        /\ VerifyTokenAndChangePassword(tok, pw, salt))
       => (~last'.ok /\ last'.msg = MsgAlreadyUsed)

\* C2 (as claimed): each token is redeemed at most once, its consumed mark
\* is never cleared, every later redemption of it fails with AlreadyUsed, and
\* a token once refused as expired never succeeds
C2_RedeemedAtMostOnce == [][TokenStaysSpent /\ SpentTokenRefused(NewPasswords)]_vars

\* C2 (amended): as above, where a later redemption fails with AlreadyUsed
\* when its new password is not empty
C2_RedeemedAtMostOnceNonEmpty ==
    [][TokenStaysSpent /\ SpentTokenRefused(NewPasswords \ {PwEmpty})]_vars

\* a token was redeemed and a second redemption of it was refused
C2_Witness ==
    /\ last.op = "verify"
    /\ last.msg = MsgAlreadyUsed
    /\ last.tok \in DOMAIN redeemed
    /\ redeemed[last.tok] = 1

\* C3: redeeming an unconsumed token with a valid new password fails as
\* expired after issue time + 15 minutes and succeeds before it
C3_ExpiresAtFifteenMinutes ==
    (/\ last.op = "verify"
     /\ last.tok \in DOMAIN issuedAt
     /\ Len(last.password) >= MinPasswordLen
     /\ redeemed[last.tok] = (IF last.ok THEN 1 ELSE 0))
    => /\ now > issuedAt[last.tok] + TTLTicks => (~last.ok /\ last.msg = MsgExpired)
       /\ now < issuedAt[last.tok] + TTLTicks => last.ok

\* C7: request_password_change answers (True, generic message) when no
\* account or an inactive account is matched and when the email to an active
\* account is delivered; it answers ok=False only for an active account
\* whose email could not be sent
C7_RequestOutcomeGeneric ==
    last.op = "request" =>
       LET active == last.uid # 0 /\ UserById(last.uid).is_active IN
       /\ (~active \/ last.aux = "delivered") => (last.ok /\ last.msg = MsgGeneric)
       /\ ~last.ok => (active /\ last.aux = "undelivered")

\* an inactive account was matched while the mail transport is down, and the
\* answer is the generic success
C7_Witness ==
    /\ last.op = "request"
    /\ last.uid # 0
    /\ ~UserById(last.uid).is_active
    /\ last.aux = "undelivered"
    /\ last.ok
    /\ last.msg = MsgGeneric

\* C8: a request that resolves to an active account adds exactly one token
\* row (purpose password_change, expiry = request time + 15 minutes, not
\* consumed); a request that resolves to no or an inactive account adds none
C8_OneTokenPerActiveRequest ==
    [][\A l \in Names, d \in BOOLEAN :
          RequestPasswordChange(l, d) =>
             IF last'.uid # 0 /\ UserById(last'.uid).is_active
             THEN \E t \in tokens' :
                     /\ t \notin tokens
                     /\ tokens' = tokens \cup {t}
                     /\ t.user_id = last'.uid
                     /\ t.purpose = "password_change"
                     /\ t.expires_at = now + TTLTicks
                     /\ t.used_at = Null
             ELSE tokens' = tokens]_vars

\* C11: issuing a token leaves every earlier token row as it was, and every
\* token that is not consumed and whose stored expiry has not passed is
\* redeemed by a valid new password, the redemption touching no other token
C11_IssueLeavesEarlierTokens ==
    [][/\ \A l \in Names, d \in BOOLEAN :
             RequestPasswordChange(l, d) => \A t \in tokens : t \in tokens'
       /\ \A tok \in TokenInputs, salt \in Salts :
             (/\ \E t \in tokens : /\ t.token = tok
                                   /\ t.used_at = Null
                                   /\ now <= t.expires_at
              /\ VerifyTokenAndChangePassword(tok, PwGood, salt))
             => /\ last'.ok
                /\ \A t \in tokens : t.token # tok => t \in tokens']_vars

\* two tokens of one account were outstanding together and both were redeemed
C11_Witness ==
    \E t1 \in tokens, t2 \in tokens :
       /\ t1.id # t2.id
       /\ t1.user_id = t2.user_id
       /\ t1.used_at # Null
       /\ t2.used_at # Null
       /\ issuedAt[t2.id] < t1.used_at
       /\ issuedAt[t1.id] < t2.used_at

(* ------------------------ properties of the import --------------------- *)
\* the group the next pass of the loop works on, its header and its items
NextGroup == Head(run.groups)

NextHeader == HeaderFromGroup(NextGroup.sub, run.combine_items)

NextItems == ItemsFromGroup(NextGroup.sub, run.combine_items)

PassesGate(header) ==
    /\ header.invoice_no # <<>>
    /\ header.financial_status \in ALLOWED_STATUS
    /\ header.vendor \in ALLOWED_VENDORS

SkipActions == {"skip_invalid_status", "skip_invalid_vendor", "skip_missing_invoice_no"}

\* C12: a pass changes sales, sales_items or sequences only for a group
\* whose normalized invoice number is non-empty and whose normalized status
\* and vendor are allowed; a group whose derived header fails one of these
\* adds one to Skipped, logs a skip entry with the reason and writes none of
\* the three tables; every stored header meets the three conditions
C12_OnlyValidGroupsAreWritten ==
    [][/\ ImportGroup("none", FALSE) =>
             /\ <<sales, sales_items, sequences>>' # <<sales, sales_items, sequences>>
                   => PassesGate(NextHeader)
             /\ (~run.file.lineitem_name_twice /\ ~PassesGate(NextHeader))
                   => /\ <<sales, sales_items, sequences>>' = <<sales, sales_items, sequences>>
                      /\ run'.skipped = run.skipped + 1
                      /\ Len(audit_log') = Len(audit_log) + 1
                      /\ audit_log'[Len(audit_log')].action \in SkipActions
                      /\ audit_log'[Len(audit_log')].details.key = "reason"
       /\ \A r \in sales' : PassesGate(r)]_vars

\* a run skipped a group for each of the three reasons and stored a fourth
C12_Witness ==
    /\ run.pc = "done"
    /\ SkipActions \subseteq {audit_log[i].action : i \in DOMAIN audit_log}
    /\ run.skipped = 3
    /\ run.imported = 1
    /\ Cardinality(sales) = 1

\* C13: a stored header that has a receipt number keeps it through every
\* step of every later import
C13_ReceiptNumberIsKept ==
    [][\A r \in sales :
          r.receipt_number # <<>> =>
             \E r2 \in sales' : /\ r2.id = r.id
                                /\ r2.invoice_no = r.invoice_no
                                /\ r2.receipt_number = r.receipt_number]_vars

\* an invoice numbered in January was imported again in February from rows
\* that carry a receipt number of their own, and kept its January number
C13_Witness ==
    /\ month = 1
    /\ audit_log # <<>>
    /\ audit_log[Len(audit_log)].action = "update"
    /\ run.file = RevisedSheet
    /\ \E r \in sales :
          /\ r.invoice_no = audit_log[Len(audit_log)].invoice_no
          /\ r.receipt_number = DocNo(SeqName(0), 1)
          /\ \E i \in DOMAIN run.file.rows :
                /\ CleanInvoiceNo(run.file.rows[i].Name) = r.invoice_no
                /\ run.file.rows[i].Receipt_Number \notin {NaN, r.receipt_number}

\* how many of the first i document numbers were issued for the key of the
\* i-th
RankInKey(i) == Cardinality({j \in 1..i : issued[j].name = issued[i].name})

\* C14: the k-th document number issued for a key is the key followed by k
\* in four digits (the first is PREFIX-YYYYMM-0001), and the stored counter
\* of a key is the number of document numbers issued for it
C14_SequentialNumbersHaveNoGap ==
    /\ \A i \in DOMAIN issued :
          issued[i].doc = issued[i].name \o <<"-">> \o ZFill(Str(RankInKey(i)), DOC_PAD)
    /\ \A i \in DOMAIN issued :
          RankInKey(i) = 1 => issued[i].doc = issued[i].name \o <<"-", "0", "0", "0", "1">>
    /\ \A r \in sequences :
          r.value = Cardinality({j \in DOMAIN issued : issued[j].name = r.name})

\* three numbers were issued in one month and a first one in the next
C14_Witness ==
    /\ Len(issued) >= 4
    /\ issued[1].name = issued[2].name
    /\ issued[2].name = issued[3].name
    /\ issued[3].doc = SeqName(0) \o <<"-", "0", "0", "0", "3">>
    /\ issued[4].doc = SeqName(1) \o <<"-", "0", "0", "0", "1">>

\* the groups of a sheet render lets through to _save_order
ValidGroupCount(file, combine_items) ==
    IF file.lineitem_name_twice THEN 0
    ELSE LET groups == GroupsOf(DropDuplicates(DropNa(file.rows))) IN
         Cardinality({n \in DOMAIN groups :
                         PassesGate(HeaderFromGroup(groups[n].sub, combine_items))})

\* the run that just ended imported the sheet of the run before it again
SameSheetAgain ==
    /\ run.pc = "done"
    /\ previous.run.pc = "done"
    /\ previous.run.file = run.file

\* the second of two runs found every valid group stored and left the
\* headers and the items as the first run left them
SecondRunChangesNothing ==
    /\ run.imported = 0
    /\ run.updated = ValidGroupCount(run.file, run.combine_items)
    /\ sales = previous.sales
    /\ sales_items = previous.sales_items

\* C15 (as claimed): importing the sheet of the previous run again gives
\* Imported = 0 and Updated = the number of valid groups, and the headers and
\* the items of every invoice are those the previous run left
C15_ReimportIsIdempotent == SameSheetAgain => SecondRunChangesNothing

\* C15 (amended): as above, when the second run has the same setting of
\* "Combine duplicate line items" as the first
C15_ReimportSameSettingIsIdempotent ==
    (SameSheetAgain /\ previous.run.combine_items = run.combine_items)
       => SecondRunChangesNothing

\* a sheet with valid groups was imported twice with one setting
C15_Witness ==
    /\ SameSheetAgain
    /\ previous.run.combine_items = run.combine_items
    /\ run.updated >= 2
    /\ previous.run.imported >= 1

\* the rows _save_order inserts for the items of a sale
ItemRows(sid, its) ==
    {[sale_id |-> sid, line_no |-> i,
      product_code |-> its[i].product_code, product_name |-> its[i].product_name,
      unit |-> its[i].unit, quantity |-> its[i].quantity,
      price |-> its[i].price, total_amount |-> its[i].total_amount] : i \in DOMAIN its}

\* C16: after a pass that saves a group, the line items of its invoice are
\* the group's items with line numbers 1..n and nothing else; a stored
\* header of that invoice number is updated in place, otherwise one header
\* is inserted
C16_ItemsAreReplaced ==
    [][(/\ ImportGroup("none", FALSE)
        /\ ~run.file.lineitem_name_twice
        /\ PassesGate(NextHeader))
       => \E r \in sales' :
             /\ r.invoice_no = NextHeader.invoice_no
             /\ {x \in sales_items' : x.sale_id = r.id} = ItemRows(r.id, NextItems)
             /\ {x.line_no : x \in {y \in sales_items' : y.sale_id = r.id}} = 1..Len(NextItems)
             /\ {x \in sales_items' : x.sale_id # r.id} = {x \in sales_items : x.sale_id # r.id}
             /\ IF \E o \in sales : o.invoice_no = r.invoice_no
                THEN /\ \E o \in sales : o.invoice_no = r.invoice_no /\ o.id = r.id
                     /\ Cardinality(sales') = Cardinality(sales)
                ELSE /\ \A o \in sales : o.id # r.id
                     /\ sales' = sales \cup {r}]_vars

\* an invoice stored with an item of tea was imported again with cups only,
\* and no tea is left
C16_Witness ==
    /\ audit_log # <<>>
    /\ audit_log[Len(audit_log)].action = "update"
    /\ \E r \in sales :
          /\ r.invoice_no = audit_log[Len(audit_log)].invoice_no
          /\ \E x \in previous.sales_items :
                x.sale_id = r.id /\ x.product_name = <<"T", "e", "a">>
          /\ \E x \in sales_items : x.sale_id = r.id
          /\ \A x \in sales_items :
                x.sale_id = r.id => x.product_name = <<"C", "u", "p">>

\* the step at which the next pass raises when the database refuses the
\* step fault, "" if the pass raises nothing
RaisedNext(fault) ==
    RaisedAt(run.file.lineitem_name_twice, GateFailure(NextHeader),
             NextHeader.receipt_number = <<>>, fault)

\* C17: a pass in which an exception is raised, at whichever step, adds
\* one to Skipped and nothing to Imported or Updated, appends one error
\* entry to the audit log, and leaves the loop running on the remaining
\* groups
C17_ExceptionSkipsOnceAndContinues ==
    [][\A fault \in Faults, handler_fault \in BOOLEAN :
          (ImportGroup(fault, handler_fault) /\ RaisedNext(fault) # "")
          => /\ run'.skipped = run.skipped + 1
             /\ run'.imported = run.imported
             /\ run'.updated = run.updated
             /\ Len(run'.issues) = Len(run.issues) + 1
             /\ Len(audit_log') = Len(audit_log) + 1
             /\ audit_log'[Len(audit_log')].action = "error"
             /\ run'.pc = "running"
             /\ run'.groups = Tail(run.groups)]_vars

AuditActions == {"insert", "update", "error"} \cup SkipActions

\* C18: every pass of the loop appends exactly one entry to the audit log,
\* under one of the six actions, and no step of an import changes or
\* removes an entry that is already there
C18_OneAuditEntryPerGroup ==
    [][/\ ImportGroup("none", FALSE)
          => /\ Len(audit_log') = Len(audit_log) + 1
             /\ audit_log'[Len(audit_log')].action \in AuditActions
       /\ Len(audit_log') >= Len(audit_log)
       /\ SubSeq(audit_log', 1, Len(audit_log)) = audit_log]_vars

\* one log holds an insert, the three kinds of skip and an error, one entry
\* for each group of the two runs that wrote them
C18_Witness ==
    /\ {"insert", "error"} \cup SkipActions
          \subseteq {audit_log[i].action : i \in DOMAIN audit_log}
    /\ run.pc = "done"
    /\ Len(audit_log) = Len(previous.run.issues) + 1 + Len(run.issues)

\* C19: of two sessions that each fetched the row of the same token while
\* it was unconsumed and have both returned, at most one returned success
C19_AtMostOneRedeems ==
    \A s1, s2 \in Sessions :
       (/\ s1 # s2
        /\ verifying[s1].pc = "returned"
        /\ verifying[s2].pc = "returned"
        /\ verifying[s1].row.id # 0
        /\ verifying[s1].row.id = verifying[s2].row.id
        /\ verifying[s1].row.used_at = Null
        /\ verifying[s2].row.used_at = Null)
       => ~(verifying[s1].ok /\ verifying[s2].ok)

\* C20: whatever the interleaving of the reads and writes of two sessions,
\* the document numbers returned are pairwise different and the stored
\* counter of a key never goes down
C20_ConcurrentNumbersDiffer ==
    [][/\ \A i, j \in DOMAIN issued' : i # j => issued'[i].doc # issued'[j].doc
       /\ \A r \in sequences, q \in sequences' :
             r.name = q.name => q.value >= r.value]_vars

(* --------------------- further properties of the tokens ---------------- *)
\* the step is a call of verify_token_and_change_password: it writes the
\* outcome of a redemption (a call repeated on an unchanged database with the
\* same arguments gives the same outcome and leaves every variable as it was)
Redeems == last'.op = "verify" /\ last' # last

\* a redemption of the token string tok with the password pw has a reason
\* to fail: no row, another purpose, a consumed mark, the expiry passed, or
\* a password of fewer than 8 characters
HasReasonToFail(tok, pw) ==
    \/ Len(pw) < MinPasswordLen
    \/ \A t \in tokens : t.token # tok
    \/ \E t \in tokens :
          /\ t.token = tok
          /\ \/ t.purpose # "password_change"
             \/ t.used_at # Null
             \/ now > t.expires_at

\* the only reason is the length of the password
OnlyTooShort(tok, pw) ==
    /\ pw # <<>>
    /\ Len(pw) < MinPasswordLen
    /\ \E t \in tokens :
          /\ t.token = tok
          /\ t.purpose = "password_change"
          /\ t.used_at = Null
          /\ now <= t.expires_at

\* C21: a redemption that has a reason to fail is answered with a failure
\* and changes no row of users and no row of password_tokens; after a
\* refusal for the length of the password alone the token is still stored
\* unconsumed and unexpired
C21_FailedRedemptionChangesNothing ==
    [][(Redeems /\ HasReasonToFail(last'.tok, last'.password))
          => /\ ~last'.ok
             /\ users' = users
             /\ tokens' = tokens
             /\ redeemed' = redeemed
             /\ OnlyTooShort(last'.tok, last'.password)
                  => \E t \in tokens' :
                        /\ t.token = last'.tok
                        /\ t.used_at = Null
                        /\ now' <= t.expires_at]_vars

\* a token was refused for a short password and is still redeemable
C21_Witness ==
    /\ last.op = "verify"
    /\ last.msg = MsgTooShort
    /\ \E t \in tokens :
          /\ t.token = last.tok
          /\ VerifyFailure(t.token, PwGood, t) = ""

\* the answer the order NotFound, WrongPurpose, AlreadyUsed, Expired,
\* PolicyViolation gives to a redemption of tok with pw
FirstFailingCheck(tok, pw) ==
    IF \A t \in tokens : t.token # tok THEN MsgNotFound
    ELSE IF \E t \in tokens : t.token = tok /\ t.purpose # "password_change"
    THEN MsgWrongPurpose
    ELSE IF \E t \in tokens : t.token = tok /\ t.used_at # Null THEN MsgAlreadyUsed
    ELSE IF \E t \in tokens : t.token = tok /\ now > t.expires_at THEN MsgExpired
    ELSE IF Len(pw) < MinPasswordLen THEN MsgTooShort
    ELSE MsgChanged

AnswersInOrder(toks, pws) ==
    (Redeems /\ last'.tok \in toks /\ last'.password \in pws)
       => last'.msg = FirstFailingCheck(last'.tok, last'.password)

\* C22 (as claimed): every redemption, whatever the token string and the
\* new password, the empty ones included, is answered with the first
\* failing check in the order NotFound, WrongPurpose, AlreadyUsed, Expired,
\* PolicyViolation
C22_FirstFailingCheckReported == [][AnswersInOrder(TokenInputs, NewPasswords)]_vars

\* C22 (amended): the same for a token string and a new password that are
\* not empty
C22_FirstFailingCheckReportedNonEmpty ==
    [][AnswersInOrder(TokenInputs \ {EmptyToken}, NewPasswords \ {PwEmpty})]_vars

\* a consumed token whose expiry has passed was refused as already used
C22_Witness ==
    /\ last.op = "verify"
    /\ last.msg = MsgAlreadyUsed
    /\ \E t \in tokens : t.token = last.tok /\ t.used_at # Null /\ now > t.expires_at

\* the row of the account is the one the store started with
StoredAtStart(u) == \E store \in TokenStores : u \in store

\* C23: in every state of the database file, whichever statement of
\* verify_token_and_change_password a process died at, an account has a
\* consumed token exactly if its credential has been replaced
C23_MarkAndCredentialTogether ==
    \A u \in users :
       (\E t \in tokens : t.user_id = u.id /\ t.used_at # Null) <=> ~StoredAtStart(u)

\* a session died between the two UPDATEs or before the commit, and a
\* redemption has been committed as well
C23_Witness ==
    /\ \E s \in Sessions :
          /\ verifying[s].pc = "crashed_in_transaction"
          /\ \E t \in tokens : t.id = verifying[s].row.id /\ t.used_at = Null
    /\ \E t \in tokens : t.used_at # Null

(* --------------------- further properties of the import ---------------- *)
ItemsOfSale(table, sid) == {x \in table : x.sale_id = sid}

\* C24: whatever the step, a completed pass or a process dying at any
\* statement of _save_order, a stored invoice afterwards has its old header
\* with its old line items or the new header with the new line items
C24_HeaderAndItemsTogether ==
    [][\A r \in sales :
          \/ /\ r \in sales'
             /\ ItemsOfSale(sales_items', r.id) = ItemsOfSale(sales_items, r.id)
          \/ /\ run.pc = "running"
             /\ run.groups # <<>>
             /\ r.invoice_no = NextHeader.invoice_no
             /\ SalesRow(r.id, HeaderToSave(NextHeader)) \in sales'
             /\ \A q \in sales' : q.id = r.id => q = SalesRow(r.id, HeaderToSave(NextHeader))
             /\ ItemsOfSale(sales_items', r.id) = ItemRows(r.id, NextItems)]_vars

\* a process died inside _save_order while it was replacing a stored
\* invoice by a different header and different items
C24_Witness ==
    /\ run.pc = "crashed"
    /\ \E r \in sales :
          /\ r.invoice_no = NextHeader.invoice_no
          /\ r # SalesRow(r.id, HeaderToSave(NextHeader))
          /\ ItemsOfSale(sales_items, r.id) # {}
          /\ ItemsOfSale(sales_items, r.id) # ItemRows(r.id, NextItems)

\* the first row of the group the next pass works on
NextFirst == NextGroup.sub[1]

\* the sum of quantity times price over the rows of a group
RECURSIVE LineTotals(_)
LineTotals(sub) ==
    IF sub = <<>> THEN 0
    ELSE F(sub[1].Lineitem_quantity) * F(sub[1].Lineitem_price) + LineTotals(Tail(sub))

\* the header stored for the group after a pass that saves it has its
\* subtotal equal to the group's line totals when the sheet gives none,
\* and a total that, for the sheets in only_without_total, is
\* max(subtotal - discount, 0)
TotalsOfSavedHeader(only_without_total) ==
    (/\ ImportGroup("none", FALSE)
     /\ ~run.file.lineitem_name_twice
     /\ PassesGate(NextHeader))
    => \E r \in sales' :
          /\ r.invoice_no = NextHeader.invoice_no
          /\ F(NextFirst.Subtotal) = 0 => r.subtotal = LineTotals(NextGroup.sub)
          /\ (only_without_total => F(NextFirst.Total) = 0)
                => r.total = Max(r.subtotal - r.discount_amount, 0)
          /\ F(NextFirst.Total) # 0 => r.total = F(NextFirst.Total)

\* C25 (as claimed): every header the import stores has total =
\* max(subtotal - discount, 0), with the sum of the group's line totals
\* for subtotal when the sheet gives none
C25_TotalIsSubtotalLessDiscount == [][TotalsOfSavedHeader(FALSE)]_vars

\* C25 (amended): the same for a group whose sheet gives no total; a total
\* given by the sheet is stored as it is
C25_TotalIsSubtotalLessDiscountUnlessGiven == [][TotalsOfSavedHeader(TRUE)]_vars

\* a stored header whose discount is larger than its subtotal has total 0
C25_Witness ==
    \E r \in sales : r.discount_amount > r.subtotal /\ r.subtotal > 0 /\ r.total = 0

\* the sum of a column over the lines 1..n of a sale in a sales_items table
RECURSIVE SumOfLines(_, _, _, _)
SumOfLines(table, sid, field, n) ==
    IF n = 0 THEN 0
    ELSE (CHOOSE x \in table : x.sale_id = sid /\ x.line_no = n)[field]
         + SumOfLines(table, sid, field, n - 1)

RECURSIVE Quantities(_)
Quantities(sub) ==
    IF sub = <<>> THEN 0 ELSE F(sub[1].Lineitem_quantity) + Quantities(Tail(sub))

C27_LoginMatchesOneAccount ==
    \A l \in Names : Cardinality({u \in users : u.email = l \/ u.username = l}) <= 1

\* the email or the username given to ensure_user belongs to an account
Belongs(email, username) ==
    \E x \in users : x.email = email \/ (username # None /\ x.username = username)

\* C28: a call of ensure_user, direct or from the register form, goes on
\* from its SELECT to its INSERT only if neither its email nor its username
\* belongs to an account, whatever password, role and is_active it passes;
\* an INSERT that meets such an account, inserted by another session since
\* the SELECT, leaves the users table as it is; and the table changes only
\* by the INSERT of a call that meets no such account, which adds one row
\* and changes none
C28_EnsureUserKeepsExistingAccount ==
    [][/\ \A s \in Sessions :
             /\ (sess[s].pc = "idle" /\ sess'[s].pc = "ensure_insert")
                   => ~Belongs(sess'[s].email, sess'[s].username)
             /\ (sess[s].pc = "ensure_insert" /\ sess'[s].pc = "idle"
                   /\ Belongs(sess[s].email, sess[s].username))
                   => users' = users
       /\ users' # users
             => /\ users \subseteq users'
                /\ Cardinality(users') = Cardinality(users) + 1
                /\ \E s \in Sessions :
                      /\ sess[s].pc = "ensure_insert"
                      /\ sess'[s].pc = "idle"
                      /\ ~Belongs(sess[s].email, sess[s].username)]_vars

\* ensure_user was called as an active administrator with another password
\* for the email or username of a registered, inactive account, which is
\* still what it was
C28_Witness ==
    /\ last.op = "ensure_user"
    /\ last.aux = "existing"
    /\ last.password = PwDigits
    /\ \E x \in users :
          /\ x.id = last.uid
          /\ x.role = "User"
          /\ ~x.is_active
          /\ DigestMatches(x, PwGood)

(* ------------------ properties of the receipt numbers ------------------ *)
\* C29: a pass over a group whose invoice is stored with a receipt number
\* leaves the sequences table as it is, and a pass that advances a counter
\* stores the number it allocated as the receipt number of an invoice
C29_CounterAdvancesOnlyForStoredNumbers ==
    [][ImportGroup("none", FALSE)
       => /\ (\E r \in sales : /\ r.invoice_no = NextHeader.invoice_no
                                /\ r.receipt_number # <<>>)
                => sequences' = sequences
          /\ sequences' # sequences
                => \E r \in sales' :
                      r.receipt_number = issued'[Len(issued')].doc]_vars

\* C30: no two stored invoice headers carry the same non-empty receipt
\* number
C30_ReceiptNumbersAreUnique ==
    \A r \in sales, q \in sales :
       (r.id # q.id /\ r.receipt_number # <<>>) => r.receipt_number # q.receipt_number

====
